---- MODULE Spec2Model ----
(***************************************************************************)
(* Institutional ownership estimation engine of tw-institutional-stocker:  *)
(* step 4 of run_etl (src/etl/run_all.py), i.e. build_foreign_master and   *)
(* build_estimated_holdings (src/etl/processors/holdings.py),              *)
(* add_change_metrics (src/etl/processors/ratios.py) and upsert_ratios     *)
(* (src/etl/loaders/db_loader.py).                                         *)
(*                                                                         *)
(* Data frames are sequences of records.  A nullable cell is Null (<<>>)   *)
(* or Some(v) (<<v>>).  Security codes are the numeric codes of the        *)
(* exchange (their string order is their numeric order), dates are day     *)
(* numbers.  Ratios are exact rationals [n, d] in lowest terms; the        *)
(* official foreign ratio and every persisted Numeric(8,4) value are       *)
(* integers in units of 0.0001 percent.                                    *)
(***************************************************************************)
EXTENDS Integers, Sequences, FiniteSets, TLC

VARIABLES flows, twse, tpex, baseline, foreign_master, merged, ratios, pc,
          institutional_flows, foreign_holdings, target_date,
          etl_status, entry, waited, broker, success,
          max_wait_minutes, check_interval, main_result, close_failed,
          from_db, backfill,
          thread_local, sessions, futures, workers, executor

\* the tables run_etl reads its ratio inputs from, and the run's target date
store == <<institutional_flows, foreign_holdings, target_date>>
\* system_status.etl_status, the entry point of the process, the wait loop
\* and outcome of the broker ETL, and the success flag of run_cloud.main
proc == <<etl_status, entry, waited, broker, success>>

\* the arguments of the call of wait_for_main_etl; how the entry point
\* ended ("none" while it runs, the value main returned, or "exception" when
\* an exception left it), and whether its last close_browser call raised
\* the scripts run by hand: the frame compute_ratios_from_db returned, and
\* the last call of run_backfill.py (its outcome and its date range)
threads == <<thread_local, sessions, futures, workers, executor>>

scripts == <<from_db, backfill, threads>>

jobs == <<max_wait_minutes, check_interval, main_result, close_failed,
          scripts>>

vars == <<flows, twse, tpex, baseline, foreign_master, merged, ratios, pc,
          store, proc, jobs>>

\* wait_for_main_etl() as run_broker_etl calls it (run_broker.py line 175):
\* the defaults of line 20; the entry point has not ended
JobsIdle ==
    /\ max_wait_minutes = 30
    /\ check_interval = 30
    /\ main_result = "none"
    /\ close_failed = FALSE
    /\ from_db = <<>>
    /\ backfill = [outcome |-> "idle", start |-> 0, end |-> 0]
    /\ thread_local = <<>>
    /\ sessions = <<>>
    /\ futures = <<>>
    /\ workers = <<>>
    /\ executor = [fn |-> "none", pc |-> "idle", max_workers |-> 0,
                   months_back |-> 0, submitted |-> 0, collected |-> {}]

(***************************************************************************)
(* Bounds of the model.                                                    *)
(***************************************************************************)
MaxDate == 3
MaxAnchors == 2
MaxSnaps == 2

Dates == 1..MaxDate
Codes == {1101, 6488}
Markets == {"TWSE", "TPEX"}

\* stocks.market: one listing market per code (models.py, Stock)
stocks == (1101 :> "TWSE") @@ (6488 :> "TPEX")

Null == <<>>
Some(v) == <<v>>
notna(x) == x # Null
Val(x) == x[1]

\* Series.fillna(v)
fillna(x, v) == IF notna(x) THEN Val(x) ELSE v

Abs(x) == IF x < 0 THEN -x ELSE x
Max(S) == CHOOSE x \in S : \A y \in S : y <= x

RECURSIVE GCD(_, _)
GCD(a, b) == IF b = 0 THEN a ELSE GCD(b, a % b)

\* the rational n/d (d > 0) in lowest terms
Rat(n, d) == LET g == GCD(Abs(n), d) IN [n |-> n \div g, d |-> d \div g]
RatZero == [n |-> 0, d |-> 1]
RatAdd(a, b) == Rat(a.n * b.d + b.n * a.d, a.d * b.d)
RatSub(a, b) == Rat(a.n * b.d - b.n * a.d, a.d * b.d)

RECURSIVE Flatten(_)
Flatten(ss) == IF ss = <<>> THEN <<>> ELSE Head(ss) \o Flatten(Tail(ss))

(***************************************************************************)
(* DataFrame.sort_values(["code", "date"]): rows in ascending (code, date) *)
(* order, rows of equal key in their previous order.                       *)
(***************************************************************************)
KeyLE(r, s) == r.code < s.code \/ (r.code = s.code /\ r.date <= s.date)

InsertRow(sorted, x) ==
    LET before == {i \in 1..Len(sorted) : KeyLE(sorted[i], x)}
        k == IF before = {} THEN 0 ELSE Max(before)
    IN  SubSeq(sorted, 1, k) \o <<x>> \o SubSeq(sorted, k + 1, Len(sorted))

\* the frame left in the order it came in
keep_order(df) == df

RECURSIVE sort_values(_)
sort_values(df) ==
    IF df = <<>> THEN <<>>
    ELSE InsertRow(sort_values(SubSeq(df, 1, Len(df) - 1)), df[Len(df)])

\* a forward fill over the whole frame, without the groupby
ffill_ungrouped(df, col, i) ==
    LET prev == {j \in 1..i : notna(df[j][col])}
    IN  IF prev = {} THEN Null ELSE df[Max(prev)][col]

(***************************************************************************)
(* groupby(code).ffill() of one column: the cell itself when it is not     *)
(* null, else the nearest earlier non-null cell of the same code in row    *)
(* order, else null.                                                       *)
(***************************************************************************)
ffill(df, col, i) ==
    LET prev == {j \in 1..i : df[j].code = df[i].code /\ notna(df[j][col])}
    IN  IF prev = {} THEN Null ELSE df[Max(prev)][col]

(***************************************************************************)
(* holdings.py build_foreign_master                                        *)
(***************************************************************************)
build_foreign_master(tw, tp) ==
    LET all_df == tw \o tp
        sorted == sort_values(all_df)
    IN  IF all_df = <<>> THEN all_df
        ELSE [i \in 1..Len(sorted) |->
                [code |-> sorted[i].code,
                 date |-> sorted[i].date,
                 market |-> sorted[i].market,
                 total_shares |-> ffill(sorted, "total_shares", i),
                 foreign_ratio |-> ffill(sorted, "foreign_ratio", i)]]

(***************************************************************************)
(* DataFrame.merge(right, on=keys, how="left"): every left row in order,   *)
(* once per matching right row (in right order), or once with null right   *)
(* columns when nothing matches.                                           *)
(***************************************************************************)
\* lines 46-50: the join of the flows with the snapshot master
OnDateCodeMarket(l, r) == r.date = l.date /\ r.code = l.code /\ r.market = l.market
MatchesForeign(fm, l) == SelectSeq(fm, LAMBDA r : OnDateCodeMarket(l, r))

WithForeign(l, total, ratio) ==
    [code |-> l.code, date |-> l.date, market |-> l.market,
     foreign_net |-> l.foreign_net, trust_net |-> l.trust_net,
     dealer_net |-> l.dealer_net,
     total_shares |-> total, foreign_ratio |-> ratio]

merge_foreign(fl, fm) ==
    Flatten([i \in 1..Len(fl) |->
        LET ms == MatchesForeign(fm, fl[i])
        IN  IF ms = <<>> THEN <<WithForeign(fl[i], Null, Null)>>
            ELSE [k \in 1..Len(ms) |->
                    WithForeign(fl[i], ms[k].total_shares, ms[k].foreign_ratio)]])

\* lines 53-69: the join with the baseline anchors (null columns without one)
OnDateCode(l, r) == r.date = l.date /\ r.code = l.code
MatchesBase(base, l) == SelectSeq(base, LAMBDA r : OnDateCode(l, r))

WithBase(l, tb, db) ==
    [code |-> l.code, date |-> l.date, market |-> l.market,
     foreign_net |-> l.foreign_net, trust_net |-> l.trust_net,
     dealer_net |-> l.dealer_net,
     total_shares |-> l.total_shares, foreign_ratio |-> l.foreign_ratio,
     trust_shares_base |-> tb, dealer_shares_base |-> db]

merge_base(m, base) ==
    Flatten([i \in 1..Len(m) |->
        LET ms == IF base = <<>> THEN <<>> ELSE MatchesBase(base, m[i])
        IN  IF ms = <<>> THEN <<WithBase(m[i], Null, Null)>>
            ELSE [k \in 1..Len(ms) |->
                    WithBase(m[i], ms[k].trust_shares_base, ms[k].dealer_shares_base)]])

(***************************************************************************)
(* holdings.py build_estimated_holdings.accumulate, on the rows of one     *)
(* code of the sorted frame g; i is the row.                               *)
(***************************************************************************)
RECURSIVE SumNet(_, _, _)
SumNet(g, col, S) ==
    IF S = {} THEN 0
    ELSE LET j == CHOOSE x \in S : TRUE IN g[j][col] + SumNet(g, col, S \ {j})

\* a running total that leaves the row's own flow out
cumsum_exclusive(g, col, i) ==
    SumNet(g, col, {j \in 1..(i - 1) : g[j].code = g[i].code})

\* a running total over the whole frame, without the groupby
cumsum_ungrouped(g, col, i) == SumNet(g, col, 1..i)

\* lines 79-80: Series.cumsum() within the group
cumsum(g, col, i) == SumNet(g, col, {j \in 1..i : g[j].code = g[i].code})

\* lines 82-83: pd.to_numeric(base).fillna(0.0)
base_filled(g, col) ==
    [j \in 1..Len(g) |-> [code |-> g[j].code, v |-> Some(fillna(g[j][col], 0))]]

\* lines 85-86: base.ffill().fillna(0.0)
base_ff(g, col, i) == fillna(ffill(base_filled(g, col), "v", i), 0)

\* lines 88-89: cum.where(base.notna()).ffill().fillna(0.0)
cum_where_base(g, netcol, basecol) ==
    [j \in 1..Len(g) |->
        [code |-> g[j].code,
         v |-> IF notna(g[j][basecol]) THEN Some(cumsum(g, netcol, j)) ELSE Null]]

cum_at_base(g, netcol, basecol, i) ==
    fillna(ffill(cum_where_base(g, netcol, basecol), "v", i), 0)

\* lines 95-96: mask_no_base.all()
mask_no_base_all(g, i) ==
    \A j \in 1..Len(g) :
        g[j].code = g[i].code =>
            /\ base_ff(g, "trust_shares_base", j) = 0
            /\ base_ff(g, "dealer_shares_base", j) = 0

\* lines 91-98
shares_est(g, netcol, basecol, i) ==
    IF mask_no_base_all(g, i) THEN cumsum(g, netcol, i)
    ELSE base_ff(g, basecol, i)
            + (cumsum(g, netcol, i) - cum_at_base(g, netcol, basecol, i))

\* a ratio clamped into [0, 100]
ratio_est_clamped(shares, denom) ==
    IF denom > 0
    THEN IF shares < 0 THEN RatZero
         ELSE IF shares > denom THEN Rat(100, 1)
         ELSE Rat(shares * 100, denom)
    ELSE RatZero

\* lines 105-116: shares / total_shares * 100 where total_shares > 0, else 0
ratio_est(shares, denom) ==
    IF denom > 0 THEN Rat(shares * 100, denom) ELSE RatZero

\* a foreign ratio estimated like the other two, from cumulative foreign_net
foreign_ratio_accumulated(g, i) ==
    RatAdd(Rat(fillna(g[i].foreign_ratio, 0), 10000),
           IF g[i].total_shares > 0
           THEN Rat(cumsum(g, "foreign_net", i) * 100, g[i].total_shares)
           ELSE RatZero)

\* line 119: foreign_ratio.fillna(0.0).astype(float), from units of 0.0001
foreign_ratio_float(g, i) == Rat(fillna(g[i].foreign_ratio, 0), 10000)

\* a combined ratio that leaves the dealer out
three_inst_sum_no_dealer(f, t, d) == RatAdd(f, t)

\* lines 120-122
three_inst_sum(f, t, d) == RatAdd(RatAdd(f, t), d)

(***************************************************************************)
(* holdings.py build_estimated_holdings                                    *)
(***************************************************************************)
build_estimated_holdings(fl, fm, base) ==
    LET joined == sort_values(merge_base(merge_foreign(fl, fm), base))
        g == [i \in 1..Len(joined) |->
                [joined[i] EXCEPT !.total_shares = fillna(joined[i].total_shares, 0)]]
    IN  [i \in 1..Len(g) |->
            LET te == shares_est(g, "trust_net", "trust_shares_base", i)
                de == shares_est(g, "dealer_net", "dealer_shares_base", i)
                tr == ratio_est(te, g[i].total_shares)
                dr == ratio_est(de, g[i].total_shares)
                fr == foreign_ratio_float(g, i)
            IN  [code |-> g[i].code, date |-> g[i].date, market |-> g[i].market,
                 foreign_net |-> g[i].foreign_net, trust_net |-> g[i].trust_net,
                 dealer_net |-> g[i].dealer_net,
                 total_shares |-> g[i].total_shares,
                 trust_shares_base |-> g[i].trust_shares_base,
                 dealer_shares_base |-> g[i].dealer_shares_base,
                 trust_cum |-> cumsum(g, "trust_net", i),
                 dealer_cum |-> cumsum(g, "dealer_net", i),
                 trust_shares_est |-> te,
                 dealer_shares_est |-> de,
                 trust_ratio_est |-> tr,
                 dealer_ratio_est |-> dr,
                 foreign_ratio |-> fr,
                 three_inst_ratio_est |-> three_inst_sum(fr, tr, dr)]]

(***************************************************************************)
(* ratios.py add_change_metrics: Series.diff(periods=w) of                  *)
(* three_inst_ratio_est within each code, for every configured window.     *)
(***************************************************************************)
\* config.py Settings.windows
windows == {5, 20, 60, 120}

\* position of row i among the rows of its code (1 = first)
GroupPos(g, i) == Cardinality({j \in 1..i : g[j].code = g[i].code})

\* a change against the row of the code dated w days earlier
diff_calendar(g, w, i) ==
    LET back == {j \in 1..i : g[j].code = g[i].code /\ g[j].date = g[i].date - w}
    IN  IF back = {} THEN Null
        ELSE Some(RatSub(g[i].three_inst_ratio_est,
                         g[CHOOSE j \in back : TRUE].three_inst_ratio_est))

diff(g, w, i) ==
    LET p == GroupPos(g, i)
    IN  IF p <= w THEN Null
        ELSE LET k == CHOOSE j \in 1..i :
                        g[j].code = g[i].code /\ GroupPos(g, j) = p - w
             IN  Some(RatSub(g[i].three_inst_ratio_est, g[k].three_inst_ratio_est))

WithChange(r, ch) ==
    [code |-> r.code, date |-> r.date, market |-> r.market,
     foreign_net |-> r.foreign_net, trust_net |-> r.trust_net,
     dealer_net |-> r.dealer_net, total_shares |-> r.total_shares,
     trust_shares_base |-> r.trust_shares_base,
     dealer_shares_base |-> r.dealer_shares_base,
     trust_cum |-> r.trust_cum, dealer_cum |-> r.dealer_cum,
     trust_shares_est |-> r.trust_shares_est,
     dealer_shares_est |-> r.dealer_shares_est,
     trust_ratio_est |-> r.trust_ratio_est,
     dealer_ratio_est |-> r.dealer_ratio_est,
     foreign_ratio |-> r.foreign_ratio,
     three_inst_ratio_est |-> r.three_inst_ratio_est,
     change |-> ch]

add_change_metrics(m) ==
    LET g == sort_values(m)
    IN  [i \in 1..Len(g) |-> WithChange(g[i], [w \in windows |-> diff(g, w, i)])]

(***************************************************************************)
(* db_loader.py upsert_ratios into institutional_ratios, whose ratio and   *)
(* change columns are Numeric(8, 4) (models.py InstitutionalRatio): the    *)
(* float is rounded to 4 decimals, ties away from zero.  The values of the *)
(* model stay below the column's overflow at 10000.                        *)
(***************************************************************************)
Numeric84(r) ==
    LET a == Abs(r.n)
        q == a \div r.d
        rem == a % r.d
        u == q * 10000 + (rem * 20000 + r.d) \div (2 * r.d)
    IN  IF r.n < 0 THEN -u ELSE u

\* safe_float of a possibly-NaN cell, stored in a Numeric(8, 4) column
safe_float(x) == IF notna(x) THEN Some(Numeric84(Val(x))) ELSE Null

RatioRecord(r) ==
    [foreign_ratio |-> Numeric84(r.foreign_ratio),
     trust_ratio_est |-> Numeric84(r.trust_ratio_est),
     dealer_ratio_est |-> Numeric84(r.dealer_ratio_est),
     three_inst_ratio_est |-> Numeric84(r.three_inst_ratio_est),
     trust_shares_est |-> r.trust_shares_est,
     dealer_shares_est |-> r.dealer_shares_est,
     change_5d |-> safe_float(r.change[5]),
     change_20d |-> safe_float(r.change[20]),
     change_60d |-> safe_float(r.change[60]),
     change_120d |-> safe_float(r.change[120])]

\* an upsert that keeps the row a key already has
Put_keep_first(table, key, rec) ==
    [k \in DOMAIN table \cup {key} |-> IF k \in DOMAIN table THEN table[k] ELSE rec]

\* an upsert that adds the new share estimate to the one the key already has
Put_accumulate(table, key, rec) ==
    [k \in DOMAIN table \cup {key} |->
        IF k # key THEN table[k]
        ELSE IF key \in DOMAIN table
             THEN [rec EXCEPT !.trust_shares_est = @ + table[key].trust_shares_est]
             ELSE rec]

\* INSERT ... ON CONFLICT (stock_id, trade_date) DO UPDATE
Put(table, key, rec) ==
    [k \in DOMAIN table \cup {key} |-> IF k = key THEN rec ELSE table[k]]

RECURSIVE upsert_ratios(_, _)
upsert_ratios(table, df) ==
    IF df = <<>> THEN table
    ELSE LET row == Head(df)
             next == IF row.code \in DOMAIN stocks
                     THEN Put(table, <<row.code, row.date>>, RatioRecord(row))
                     ELSE table
         IN  upsert_ratios(next, Tail(df))

NoRows == <<>>
NoTable == [k \in {} |-> 0]

(***************************************************************************)
(* run_all.py update_etl_status: the values system_status.etl_status may   *)
(* hold after the call.  "none" is the table without an etl_status row;    *)
(* only the is_start form inserts one.  An exception of the session is     *)
(* caught and printed (lines 73-74), leaving the status as it was.         *)
(***************************************************************************)
StatusValues == {"none", "idle", "running", "completed", "error"}

update_etl_status(status, is_start) ==
    {IF is_start \/ etl_status # "none" THEN status ELSE etl_status, etl_status}

(***************************************************************************)
(* Step 4 of run_all.py run_etl.  pc = "loaded": flows_data and            *)
(* foreign_data are loaded (lines 279-308).                                *)
(***************************************************************************)
\* lines 310-313: the early return, after update_etl_status("completed")
InsufficientData ==
    /\ pc = "loaded"
    /\ (flows = <<>> \/ twse \o tpex = <<>>)
    /\ etl_status' \in update_etl_status("completed", FALSE)
    /\ pc' = "returned"
    /\ UNCHANGED <<flows, twse, tpex, baseline, foreign_master, merged, ratios,
                   store, entry, waited, broker, success, jobs>>

\* lines 316-319
BuildForeignMaster ==
    /\ pc = "loaded"
    /\ ~(flows = <<>> \/ twse \o tpex = <<>>)
    /\ foreign_master' = build_foreign_master(twse, tpex)
    /\ pc' = "master"
    /\ UNCHANGED <<flows, twse, tpex, baseline, merged, ratios, store, proc, jobs>>

\* lines 322-327
BuildEstimatedHoldings ==
    /\ pc = "master"
    /\ merged' = build_estimated_holdings(flows, foreign_master, baseline)
    /\ pc' = "estimated"
    /\ UNCHANGED <<flows, twse, tpex, baseline, foreign_master, ratios, store, proc, jobs>>

\* line 330
AddChangeMetrics ==
    /\ pc = "estimated"
    /\ merged' = add_change_metrics(merged)
    /\ pc' = "changed"
    /\ UNCHANGED <<flows, twse, tpex, baseline, foreign_master, ratios, store, proc, jobs>>

\* line 333
UpsertRatios ==
    /\ pc = "changed"
    /\ ratios' = upsert_ratios(ratios, merged)
    /\ pc' = "done"
    /\ UNCHANGED <<flows, twse, tpex, baseline, foreign_master, merged, store, proc, jobs>>

Next ==
    \/ InsufficientData
    \/ BuildForeignMaster
    \/ BuildEstimatedHoldings
    \/ AddChangeMetrics
    \/ UpsertRatios

(***************************************************************************)
(* Inputs.  Frames loaded from the database (lines 281-307) have one row   *)
(* per (code, date) (UniqueConstraint of institutional_flows and           *)
(* foreign_holdings), each carrying the code's one stocks.market, in       *)
(* ORDER BY code, trade_date; foreign_data is split by market into the     *)
(* two exchange frames (lines 316-319).                                    *)
(***************************************************************************)

\* <<trust_net, dealer_net, foreign_net>> of a flow row
NetVals == {<<1000, -200, 7>>, <<-500, 300, -7>>}
\* <<trust_shares_base, dealer_shares_base>> of an anchor row
BaseVals == {<<Some(10000), Null>>, <<Some(0), Some(0)>>, <<Null, Some(200)>>}
\* <<total_shares, foreign_ratio>> of a snapshot row
SnapVals == {<<Some(1000), Some(100000)>>, <<Null, Null>>, <<Some(30000), Null>>,
             <<Some(0), Some(25000)>>, <<Some(-1000), Some(100000)>>}

FlowRow(c, d, mk, nv) ==
    [code |-> c, date |-> d, market |-> mk,
     trust_net |-> nv[1], dealer_net |-> nv[2], foreign_net |-> nv[3]]
SnapRow(c, d, mk, sv) ==
    [code |-> c, date |-> d, market |-> mk,
     total_shares |-> sv[1], foreign_ratio |-> sv[2]]
AnchorRow(c, d, bv) ==
    [code |-> c, date |-> d,
     trust_shares_base |-> bv[1], dealer_shares_base |-> bv[2]]

\* the rows of code c, in date order, that pick (a function from some dates
\* to values) names; a row loaded from the database carries stocks.market
FlowsOf(c, pick) ==
    Flatten([d \in 1..MaxDate |->
        IF d \in DOMAIN pick THEN <<FlowRow(c, d, stocks[c], pick[d])>> ELSE <<>>])
SnapsOf(c, pick) ==
    Flatten([d \in 1..MaxDate |->
        IF d \in DOMAIN pick THEN <<SnapRow(c, d, stocks[c], pick[d])>> ELSE <<>>])
AnchorsOf(c, pick) ==
    Flatten([d \in 1..MaxDate |->
        IF d \in DOMAIN pick THEN <<AnchorRow(c, d, pick[d])>> ELSE <<>>])

Picks(Vals, max) ==
    UNION {[D -> Vals] : D \in {E \in SUBSET Dates : Cardinality(E) <= max}}

\* the second security: flows on the first two days, a snapshot on each
Flows6488 == FlowsOf(6488, [d \in {1, 2} |-> <<1000, -200, 7>>])
Snaps6488 == SnapsOf(6488, [d \in {1, 2} |-> <<Some(30000), Some(100000)>>])
SnapsFull1101 == SnapsOf(1101, [d \in Dates |-> <<Some(1000), Some(100000)>>])
FlowsFull1101 ==
    FlowsOf(1101, [d \in Dates |-> IF d = 2 THEN <<-500, 300, -7>>
                                  ELSE <<1000, -200, 7>>])

Exchange(df, mk) == SelectSeq(df, LAMBDA r : r.market = mk)

\* run_etl at line 310 of its first run with target date t: every stored row
\* is inside the load window
StartAt(fl, foreign_data, base, t) ==
    /\ flows = fl
    /\ twse = Exchange(foreign_data, "TWSE")
    /\ tpex = Exchange(foreign_data, "TPEX")
    /\ baseline = base
    /\ foreign_master = NoRows
    /\ merged = NoRows
    /\ ratios = NoTable
    /\ pc = "loaded"
    /\ institutional_flows = fl
    /\ foreign_holdings = foreign_data
    /\ target_date = t
    /\ etl_status = "running"
    /\ entry = "run_all"
    /\ waited = 0
    /\ broker = "idle"
    /\ success = TRUE
    /\ JobsIdle

Start(fl, foreign_data, base) == StartAt(fl, foreign_data, base, MaxDate)

\* flows and anchors of 1101 vary, the snapshots are complete
InitAnchored ==
    \E fp \in Picks(NetVals, MaxDate), ap \in Picks(BaseVals, MaxAnchors) :
        \E with6488 \in BOOLEAN :
            Start(FlowsOf(1101, fp) \o (IF with6488 THEN Flows6488 ELSE <<>>),
                  SnapsFull1101 \o Snaps6488,
                  AnchorsOf(1101, ap))

\* the snapshots vary (up to MaxSnaps rows of 1101, at most one of 6488);
\* the flows are complete
InitSnapshots ==
    \E sp1 \in Picks(SnapVals, MaxSnaps), sp2 \in Picks(SnapVals, 1) :
        \E anchored \in BOOLEAN :
            /\ DOMAIN sp2 \subseteq {1}
            /\ Start(FlowsFull1101 \o Flows6488,
                     SnapsOf(1101, sp1) \o SnapsOf(6488, sp2),
                     IF anchored THEN <<AnchorRow(1101, 1, <<Some(10000), Null>>)>>
                     ELSE <<>>)

\* days without institutional trading (net flows 0, the default of the
\* columns) whose snapshot has a positive, a zero or no total_shares
QuietSnapVals == {<<Some(1000), Some(100000)>>, <<Some(0), Some(100000)>>,
                  <<Null, Some(100000)>>}

InitQuiet ==
    \E sp \in [Dates -> QuietSnapVals], with6488 \in BOOLEAN :
        Start(FlowsOf(1101, [d \in Dates |-> IF d = MaxDate THEN <<1000, -200, 7>>
                                             ELSE <<0, 0, 0>>])
                \o (IF with6488 THEN Flows6488 ELSE <<>>),
              SnapsOf(1101, sp) \o Snaps6488,
              <<>>)

Init == InitAnchored \/ InitSnapshots \/ InitQuiet

Spec == Init /\ [][Next]_vars

(***************************************************************************)
(* Longer histories, for the change windows: the k-th row of a security is *)
(* dated k days after the start plus gap days for every `every` rows gone  *)
(* by (weekends with every = 5, a thinly traded security with every = 1),  *)
(* and the net flows follow a period of 3 rows.                            *)
(***************************************************************************)
MaxRows == 22

SeriesLens == {0, 5, 6, MaxRows - 1, MaxRows}
SeriesGaps == {0, 2}

SeriesDay(k, gap, every) == k + gap * ((k - 1) \div every)

SeriesNet(k, pat) ==
    IF (k + pat) % 3 = 0 THEN <<-500, 300, -7>> ELSE <<1000, -200, 7>>

SeriesFlows(c, n, gap, every, pat) ==
    [k \in 1..n |->
        FlowRow(c, SeriesDay(k, gap, every), stocks[c], SeriesNet(k, pat))]

SeriesSnaps(c, n, gap, every, total) ==
    [k \in 1..n |->
        SnapRow(c, SeriesDay(k, gap, every), stocks[c],
                <<Some(total), Some(100000)>>)]

InitSeries ==
    \E n1 \in SeriesLens, n2 \in {0, 3, 6} :
        \E gap \in SeriesGaps, pat \in {0, 1}, anchored \in BOOLEAN :
            StartAt(SeriesFlows(1101, n1, gap, 5, pat)
                        \o SeriesFlows(6488, n2, 4 - 2 * gap, 1, pat + 1),
                    SeriesSnaps(1101, n1, gap, 5, 1000)
                        \o SeriesSnaps(6488, n2, 4 - 2 * gap, 1, 30000),
                    IF anchored THEN <<AnchorRow(1101, 1, <<Some(10000), Null>>)>>
                    ELSE <<>>,
                    SeriesDay(MaxRows, 2, 5))

SpecSeries == InitSeries /\ [][Next]_vars

(***************************************************************************)
(* The whole of run_etl, run after run.  The tables institutional_flows    *)
(* and foreign_holdings are kept in (code, date) order, the order of the   *)
(* queries of lines 281-307.  The stock_prices table of step 3 and the     *)
(* strategy tables of step 5 are not part of the state.                    *)
(***************************************************************************)
\* line 275: timedelta(days=180)
LookbackDays == 180
\* line 219: timedelta(days=60)
FirstFetchDays == 60

ratio_start_date(t) == t - LookbackDays

\* WHERE trade_date >= :start_date ORDER BY code, trade_date
InWindow(table, t) == SelectSeq(table, LAMBDA r : r.date >= ratio_start_date(t))

\* db_loader.py upsert_flows / upsert_foreign_holdings: insert, or update the
\* row of the same (stock_id, trade_date)
RECURSIVE upsert_rows(_, _)
upsert_rows(table, rows) ==
    IF rows = <<>> THEN sort_values(table)
    ELSE LET row == Head(rows)
             kept == SelectSeq(table,
                        LAMBDA r : ~(r.code = row.code /\ r.date = row.date))
         IN  upsert_rows(kept \o <<row>>, Tail(rows))

\* get_last_date_from_db and calc_start (lines 96-102, 216-223)
get_last_date_from_db(table) ==
    IF table = <<>> THEN Null ELSE Some(Max({table[k].date : k \in 1..Len(table)}))

calc_start(last_date, t) ==
    IF last_date = Null THEN t - FirstFetchDays ELSE Val(last_date) + 1

\* what the exchanges publish after the stored history ends: one more day of
\* the first security
MaxHistory == 7
HistoryEnd == SeriesDay(MaxHistory, 2, 5)
LaterDay == HistoryEnd + LookbackDays - 4

PublishedFlows == <<FlowRow(1101, LaterDay, stocks[1101], <<1000, -200, 7>>)>>
PublishedForeign ==
    <<SnapRow(1101, LaterDay, stocks[1101], <<Some(1000), Some(100000)>>)>>

\* the rows of a published frame dated in start..t whose fetch is in `got`,
\* a set of (exchange, day) pairs: the fetch of an exchange for a day that
\* fails is caught and skipped (lines 110-125)
Fetched(published, start, t, got) ==
    SelectSeq(published,
              LAMBDA r : /\ start <= r.date
                         /\ r.date <= t
                         /\ <<r.market, r.date>> \in got)

\* lines 206-208: the status row is set to running, the target date is read
\* off the clock
StartRunAt(t) ==
    /\ pc = "begin"
    /\ etl_status' \in update_etl_status("running", TRUE)
    /\ target_date' = t
    /\ pc' = "fetch"
    /\ UNCHANGED <<flows, twse, tpex, baseline, foreign_master, merged, ratios,
                   institutional_flows, foreign_holdings, entry, waited, broker,
                   success, jobs>>

\* lines 212-269: steps 1 to 3, over what the exchanges have published, with
\* the fetches of gotFlows and gotForeign succeeding
FetchAndStoreOf(pubFlows, pubForeign, gotFlows, gotForeign) ==
    /\ pc = "fetch"
    /\ institutional_flows' =
            upsert_rows(institutional_flows,
                Fetched(pubFlows,
                        calc_start(get_last_date_from_db(institutional_flows),
                                   target_date),
                        target_date, gotFlows))
    /\ foreign_holdings' =
            upsert_rows(foreign_holdings,
                Fetched(pubForeign,
                        calc_start(get_last_date_from_db(foreign_holdings),
                                   target_date),
                        target_date, gotForeign))
    /\ pc' = "ratio"
    /\ UNCHANGED <<flows, twse, tpex, baseline, foreign_master, merged, ratios,
                   target_date, proc, jobs>>

FetchAndStore ==
    \E gotFlows \in SUBSET (Markets \X {LaterDay}),
       gotForeign \in SUBSET (Markets \X {LaterDay}) :
        FetchAndStoreOf(PublishedFlows, PublishedForeign, gotFlows, gotForeign)

\* lines 275-308 (and the split by market of lines 316-319)
LoadRatioInputs ==
    /\ pc = "ratio"
    /\ flows' = InWindow(institutional_flows, target_date)
    /\ twse' = Exchange(InWindow(foreign_holdings, target_date), "TWSE")
    /\ tpex' = Exchange(InWindow(foreign_holdings, target_date), "TPEX")
    /\ foreign_master' = NoRows
    /\ merged' = NoRows
    /\ pc' = "loaded"
    /\ UNCHANGED <<baseline, ratios, store, proc, jobs>>

\* lines 337-351: step 5 (its failure is caught) and the final status
Complete ==
    /\ pc = "done"
    /\ etl_status' \in update_etl_status("completed", FALSE)
    /\ pc' = "returned"
    /\ UNCHANGED <<flows, twse, tpex, baseline, foreign_master, merged, ratios,
                   store, entry, waited, broker, success, jobs>>

\* run_all.py is started again by its schedule
RunAgain ==
    /\ pc = "returned"
    /\ entry = "run_all"
    /\ pc' = "begin"
    /\ UNCHANGED <<flows, twse, tpex, baseline, foreign_master, merged, ratios,
                   store, proc, jobs>>

\* the clock at line 208: the same target date as the run before, or a later
TargetDates == {HistoryEnd, LaterDay, LaterDay + 4, LaterDay + 5}

StartSameDay == StartRunAt(target_date)
StartLater == \E t \in TargetDates : t > target_date /\ StartRunAt(t)

(***************************************************************************)
(* The ratio step run again and again over inputs that stay as they are.   *)
(***************************************************************************)
NextTwice ==
    \/ Next
    \/ Complete
    \/ RunAgain
    \/ StartSameDay
    \/ FetchAndStore
    \/ LoadRatioInputs

SpecTwice == InitSnapshots /\ [][NextTwice]_vars

(***************************************************************************)
(* Runs of run_etl on the same or on later days over a stored history of   *)
(* the first security (MaxHistory rows or one less, weekends apart) and    *)
(* two early rows of the second.  data/inst_baseline.csv holds no anchor,  *)
(* one anchor, or two rows for the same anchor date.                       *)
(***************************************************************************)
AnchorDay == SeriesDay(MaxHistory - 1, 2, 5)

HistoryAnchors(n) ==
    SubSeq(<<AnchorRow(1101, AnchorDay, <<Some(0), Some(0)>>),
             AnchorRow(1101, AnchorDay, <<Some(10000), Null>>)>>, 3 - n, 2)

InitRuns ==
    \E n \in {MaxHistory - 1, MaxHistory}, pat \in {0, 1}, anchors \in 0..2 :
        \E with6488 \in BOOLEAN, status \in {"none", "completed"} :
            /\ institutional_flows =
                    SeriesFlows(1101, n, 2, 5, pat)
                        \o (IF with6488 THEN Flows6488 ELSE <<>>)
            /\ foreign_holdings =
                    SeriesSnaps(1101, n, 2, 5, 1000)
                        \o (IF with6488 THEN Snaps6488 ELSE <<>>)
            /\ baseline = HistoryAnchors(anchors)
            /\ target_date = HistoryEnd
            /\ flows = NoRows
            /\ twse = NoRows
            /\ tpex = NoRows
            /\ foreign_master = NoRows
            /\ merged = NoRows
            /\ ratios = NoTable
            /\ pc = "begin"
            /\ etl_status = status
            /\ entry = "run_all"
            /\ waited = 0
            /\ broker = "idle"
            /\ success = TRUE
            /\ JobsIdle

NextRuns ==
    \/ Next
    \/ Complete
    \/ RunAgain
    \/ StartSameDay
    \/ StartLater
    \/ FetchAndStore
    \/ LoadRatioInputs

SpecRuns == InitRuns /\ [][NextRuns]_vars

(***************************************************************************)
(* Runs of run_etl over an empty database while both exchanges publish     *)
(* one security each on every day of GapDays (all weekdays).  Each fetch   *)
(* of an exchange for a day succeeds or fails on its own.                  *)
(***************************************************************************)
MaxGapDay == 2
GapDays == 1..MaxGapDay

GapFlows ==
    sort_values([k \in 1..(2 * MaxGapDay) |->
        IF k <= MaxGapDay
        THEN FlowRow(1101, k, stocks[1101], <<1000, -200, 7>>)
        ELSE FlowRow(6488, k - MaxGapDay, stocks[6488], <<300, 50, -7>>)])

GapForeign ==
    sort_values([k \in 1..(2 * MaxGapDay) |->
        IF k <= MaxGapDay
        THEN SnapRow(1101, k, stocks[1101], <<Some(1000), Some(100000)>>)
        ELSE SnapRow(6488, k - MaxGapDay, stocks[6488],
                     <<Some(30000), Some(25000)>>)])

AllFetches == Markets \X GapDays

\* steps 1 to 3 of a run: any of the fetches may fail; the two snapshot
\* fetches of a day fail together or not at all
FetchSome ==
    \E gotFlows \in SUBSET AllFetches, days \in SUBSET GapDays :
        FetchAndStoreOf(GapFlows, GapForeign, gotFlows, Markets \X days)

\* the clock at line 208 does not go back
StartGapRun == \E t \in GapDays : t >= target_date /\ StartRunAt(t)

InitGaps ==
    /\ institutional_flows = NoRows
    /\ foreign_holdings = NoRows
    /\ baseline = NoRows
    /\ target_date = 1
    /\ flows = NoRows
    /\ twse = NoRows
    /\ tpex = NoRows
    /\ foreign_master = NoRows
    /\ merged = NoRows
    /\ ratios = NoTable
    /\ pc = "begin"
    /\ etl_status = "none"
    /\ entry = "run_all"
    /\ waited = 0
    /\ broker = "idle"
    /\ success = TRUE
    /\ JobsIdle

NextGaps ==
    \/ StartGapRun
    \/ FetchSome
    \/ LoadRatioInputs
    \/ Next
    \/ Complete
    \/ RunAgain

\* the start and the end of a run
RunStep ==
    \/ StartGapRun
    \/ Complete
    \/ RunAgain

\* run_etl runs to its end and is scheduled again and again: weak fairness
\* of every step of the run, written for steps 1 to 4 by the positions at
\* which they are enabled
SpecGaps ==
    /\ InitGaps
    /\ [][NextGaps]_vars
    /\ WF_vars(RunStep)
    /\ []<>(pc \notin {"fetch", "ratio", "loaded", "master", "estimated",
                       "changed"})

(***************************************************************************)
(* ratios.py compute_ratios_from_db: the flows joined to the stocks and,   *)
(* by a left join on (stock_id, trade_date), to the snapshots, with        *)
(* COALESCE(total_shares, 0) and COALESCE(foreign_ratio, 0), in            *)
(* ORDER BY code, trade_date; then a cumulative sum, the ratios and the    *)
(* changes within each code.                                               *)
(***************************************************************************)
HoldingsOn(fh, c, d) == SelectSeq(fh, LAMBDA h : h.code = c /\ h.date = d)

merged_from_db(fl, fh) ==
    LET g == sort_values(fl)
    IN  [i \in 1..Len(g) |->
            LET hs == HoldingsOn(fh, g[i].code, g[i].date)
            IN  [code |-> g[i].code, date |-> g[i].date, market |-> g[i].market,
                 foreign_net |-> g[i].foreign_net, trust_net |-> g[i].trust_net,
                 dealer_net |-> g[i].dealer_net,
                 total_shares |->
                    IF hs = <<>> THEN 0 ELSE fillna(hs[1].total_shares, 0),
                 foreign_ratio |->
                    IF hs = <<>> THEN 0 ELSE fillna(hs[1].foreign_ratio, 0)]]

compute_cumsum(g) ==
    LET est == [i \in 1..Len(g) |->
                    LET te == cumsum(g, "trust_net", i)
                        de == cumsum(g, "dealer_net", i)
                        tr == ratio_est(te, g[i].total_shares)
                        dr == ratio_est(de, g[i].total_shares)
                        fr == Rat(g[i].foreign_ratio, 10000)
                    IN  [code |-> g[i].code, date |-> g[i].date,
                         total_shares |-> g[i].total_shares,
                         trust_shares_est |-> te,
                         dealer_shares_est |-> de,
                         trust_ratio_est |-> tr,
                         dealer_ratio_est |-> dr,
                         foreign_ratio |-> fr,
                         three_inst_ratio_est |-> three_inst_sum(fr, tr, dr)]]
    IN  [i \in 1..Len(est) |->
            [code |-> est[i].code, date |-> est[i].date,
             total_shares |-> est[i].total_shares,
             trust_shares_est |-> est[i].trust_shares_est,
             dealer_shares_est |-> est[i].dealer_shares_est,
             trust_ratio_est |-> est[i].trust_ratio_est,
             dealer_ratio_est |-> est[i].dealer_ratio_est,
             foreign_ratio |-> est[i].foreign_ratio,
             three_inst_ratio_est |-> est[i].three_inst_ratio_est,
             change |-> [w \in windows |-> diff(est, w, i)]]]

compute_ratios_from_db(fl, fh) == compute_cumsum(merged_from_db(fl, fh))

(***************************************************************************)
(* run_backfill.py compute_institutional_ratios(start_date, end_date):     *)
(* for every stock, its flows of the range in date order and a map of its  *)
(* snapshots of the range; a running total from 0; ratios where the day's  *)
(* snapshot has total_shares > 0, else None; changes by position; one      *)
(* InstitutionalRatio object per record handed to session.merge, and one   *)
(* commit at the end.                                                      *)
(***************************************************************************)
InRange(df, c, start, end) ==
    SelectSeq(df, LAMBDA r : r.code = c /\ start <= r.date /\ r.date <= end)

\* lines 334-357: the records of one stock, before the changes
backfill_estimates(fl, fh, c, start, end) ==
    LET g == sort_values(InRange(fl, c, start, end))
        hmap == InRange(fh, c, start, end)
    IN  [i \in 1..Len(g) |->
            LET hs == HoldingsOn(hmap, c, g[i].date)
                total == IF hs = <<>> THEN Null ELSE hs[1].total_shares
                fr == IF hs = <<>> THEN Null ELSE hs[1].foreign_ratio
                valid == notna(total) /\ fillna(total, 0) > 0
                tr == Rat(SumNet(g, "trust_net", 1..i) * 100,
                          IF valid THEN Val(total) ELSE 1)
                dr == Rat(SumNet(g, "dealer_net", 1..i) * 100,
                          IF valid THEN Val(total) ELSE 1)
            IN  [code |-> c, date |-> g[i].date,
                 foreign_ratio |-> fr,
                 trust_ratio_est |-> IF valid THEN Some(tr) ELSE Null,
                 dealer_ratio_est |-> IF valid THEN Some(dr) ELSE Null,
                 three_inst_ratio_est |->
                    IF valid
                    THEN Some(three_inst_sum(Rat(fillna(fr, 0), 10000), tr, dr))
                    ELSE Null]]

\* lines 360-369
backfill_change(recs, w, i) ==
    IF i > w /\ notna(recs[i].three_inst_ratio_est)
             /\ notna(recs[i - w].three_inst_ratio_est)
    THEN Some(RatSub(Val(recs[i].three_inst_ratio_est),
                     Val(recs[i - w].three_inst_ratio_est)))
    ELSE Null

\* lines 372-385: the row of institutional_ratios built from a record, its
\* floats stored in Numeric(8, 4) columns; the share estimates are not set
BackfillRecord(recs, i) ==
    [foreign_ratio |-> recs[i].foreign_ratio,
     trust_ratio_est |-> safe_float(recs[i].trust_ratio_est),
     dealer_ratio_est |-> safe_float(recs[i].dealer_ratio_est),
     three_inst_ratio_est |-> safe_float(recs[i].three_inst_ratio_est),
     trust_shares_est |-> Null,
     dealer_shares_est |-> Null,
     change_5d |-> safe_float(backfill_change(recs, 5, i)),
     change_20d |-> safe_float(backfill_change(recs, 20, i)),
     change_60d |-> safe_float(backfill_change(recs, 60, i)),
     change_120d |-> safe_float(backfill_change(recs, 120, i))]

\* the rows the call hands to session.merge, by (code, date)
backfill_rows(fl, fh, start, end) ==
    LET recs == [c \in Codes |-> backfill_estimates(fl, fh, c, start, end)]
        keys == UNION {{<<c, recs[c][i].date>> : i \in 1..Len(recs[c])} :
                            c \in Codes}
    IN  [k \in keys |->
            LET c == k[1]
                i == CHOOSE j \in 1..Len(recs[c]) : recs[c][j].date = k[2]
            IN  BackfillRecord(recs[c], i)]

\* session.merge of an object whose primary key (id) is not set adds a new
\* row: an INSERT, which the UniqueConstraint(stock_id, trade_date) of
\* models.py line 82 refuses for a key the table holds
merge_new(table, rows) ==
    [k \in DOMAIN table \cup DOMAIN rows |->
        IF k \in DOMAIN rows THEN rows[k] ELSE table[k]]

\* the ratios mode of run_backfill.py main (lines 446-447)
ComputeInstitutionalRatios(start, end) ==
    LET rows == backfill_rows(institutional_flows, foreign_holdings, start, end)
    IN  /\ IF DOMAIN rows \cap DOMAIN ratios = {}
           THEN /\ ratios' = merge_new(ratios, rows)
                /\ backfill' = [outcome |-> "done", start |-> start, end |-> end]
           ELSE /\ ratios' = ratios
                /\ backfill' = [outcome |-> "IntegrityError",
                                start |-> start, end |-> end]
        /\ UNCHANGED <<flows, twse, tpex, baseline, foreign_master, merged, pc,
                       store, proc, max_wait_minutes, check_interval,
                       main_result, close_failed, from_db, threads>>

BackfillRanges == {<<1, MaxDate>>, <<2, MaxDate>>}

BackfillRatios ==
    \E range \in BackfillRanges :
        ComputeInstitutionalRatios(range[1], range[2])

\* compute_ratios_from_db called over the stored tables
RatiosFromDb ==
    /\ from_db' = compute_ratios_from_db(institutional_flows, foreign_holdings)
    /\ UNCHANGED <<flows, twse, tpex, baseline, foreign_master, merged, ratios,
                   pc, store, proc, max_wait_minutes, check_interval,
                   main_result, close_failed, backfill, threads>>

\* stored snapshots as in InitSnapshots, no baseline anchors
InitBackfill ==
    \E sp1 \in Picks(SnapVals, MaxSnaps), sp2 \in Picks(SnapVals, 1) :
        /\ DOMAIN sp2 \subseteq {1}
        /\ Start(FlowsFull1101 \o Flows6488,
                 SnapsOf(1101, sp1) \o SnapsOf(6488, sp2),
                 <<>>)

NextBackfill ==
    \/ Next
    \/ BackfillRatios
    \/ RatiosFromDb

SpecBackfill == InitBackfill /\ [][NextBackfill]_vars

(***************************************************************************)
(* run_backfill.py backfill_institutional_flows(start_date, end_date):     *)
(* every trading date of the range in its own session; a date that has a   *)
(* flow row already is skipped, for any other the two exchanges are        *)
(* fetched (a fetcher returns None when it fails or has no data) and the   *)
(* rows inserted and committed.                                            *)
(***************************************************************************)
\* what fetch_twse_t86_date and fetch_tpex_inst_date return for day d, the
\* exchanges of `got` answering
HistoricalFlows(d, got) ==
    (IF "TWSE" \in got THEN <<FlowRow(1101, d, "TWSE", <<300, 50, -7>>)>>
     ELSE <<>>)
    \o (IF "TPEX" \in got THEN <<FlowRow(6488, d, "TPEX", <<300, 50, -7>>)>>
        ELSE <<>>)

HasFlowOn(table, d) == \E k \in 1..Len(table) : table[k].date = d

\* a pass of the loop that fetches and stores whatever the table holds
backfill_date_always(table, d, got) ==
    upsert_rows(table, HistoricalFlows(d, got))

\* lines 69-118: one pass of the loop
backfill_date(table, d, got) ==
    IF HasFlowOn(table, d) THEN table
    ELSE sort_values(table \o HistoricalFlows(d, got))

\* the passes for the dates d..last
RECURSIVE backfill_dates(_, _, _, _)
backfill_dates(table, d, last, got) ==
    IF d > last THEN table
    ELSE backfill_dates(backfill_date(table, d, got), d + 1, last, got)

\* the flows mode of run_backfill.py main (lines 426-427): the passes run to
\* the end of the range, or an exception of the database ends the call
\* after the pass of `last`
BackfillFlows ==
    \E start \in Dates, end \in Dates, got \in SUBSET Markets :
        \E last \in (start - 1)..end :
            /\ start <= end
            /\ institutional_flows' =
                    backfill_dates(institutional_flows, start, last, got)
            /\ backfill' = [outcome |-> IF last = end THEN "flows done"
                                                      ELSE "flows failed",
                            start |-> start, end |-> end]
            /\ UNCHANGED <<flows, twse, tpex, baseline, foreign_master, merged,
                           ratios, pc, foreign_holdings, target_date, proc,
                           max_wait_minutes, check_interval, main_result,
                           close_failed, from_db, threads>>

\* stored flows of the first security on any days, of the second on its two
InitFill ==
    \E fp \in Picks({<<1000, -200, 7>>}, MaxDate), with6488 \in BOOLEAN :
        /\ institutional_flows =
                FlowsOf(1101, fp) \o (IF with6488 THEN Flows6488 ELSE <<>>)
        /\ foreign_holdings = NoRows
        /\ baseline = NoRows
        /\ target_date = MaxDate
        /\ flows = NoRows
        /\ twse = NoRows
        /\ tpex = NoRows
        /\ foreign_master = NoRows
        /\ merged = NoRows
        /\ ratios = NoTable
        /\ pc = "backfill"
        /\ etl_status = "none"
        /\ entry = "run_backfill"
        /\ waited = 0
        /\ broker = "idle"
        /\ success = TRUE
        /\ JobsIdle

NextFill == BackfillFlows

SpecFill == InitFill /\ [][NextFill]_vars

(***************************************************************************)
(* One process from start to exit: run_all.py __main__, or run_cloud.py    *)
(* main, which goes on to run_broker.py run_broker_etl.  An exception of   *)
(* the database or of a step leaves run_etl from any step after line 206   *)
(* (the fetchers and step 5 catch their own); the session of the failed    *)
(* step is rolled back.                                                    *)
(***************************************************************************)
Raise ==
    /\ pc \in {"fetch", "ratio", "loaded", "master", "estimated", "changed"}
    /\ pc' = "raised"
    /\ UNCHANGED <<flows, twse, tpex, baseline, foreign_master, merged, ratios,
                   store, proc, jobs>>

\* run_all.py lines 357-360: the status row is set to error, the exception
\* is raised again
MainExcept ==
    /\ pc = "raised"
    /\ entry = "run_all"
    /\ etl_status' \in update_etl_status("error", FALSE)
    /\ pc' = "exit"
    /\ main_result' = "exception"
    /\ UNCHANGED <<flows, twse, tpex, baseline, foreign_master, merged, ratios,
                   store, entry, waited, broker, success, max_wait_minutes,
                   check_interval, close_failed, scripts>>

\* run_cloud.py lines 21-35: the exception of run_etl is printed and
\* success cleared; part 2 calls run_broker_etl, which enters
\* wait_for_main_etl (run_broker.py lines 174-175, 30-33)
CloudPart2 ==
    /\ pc \in {"returned", "raised"}
    /\ entry = "run_cloud"
    /\ success' = (pc = "returned")
    /\ waited' = 0
    /\ broker' = "waiting"
    /\ pc' = "broker"
    /\ UNCHANGED <<flows, twse, tpex, baseline, foreign_master, merged, ratios,
                   store, etl_status, entry, jobs>>

\* the limit taken in minutes: line 32 without its conversion
max_wait_seconds_unconverted == max_wait_minutes

\* run_broker.py line 32
max_wait_seconds == max_wait_minutes * 60

\* lines 53-57: the main ETL is running: sleep and look again
WaitRunning ==
    /\ broker = "waiting"
    /\ waited < max_wait_seconds
    /\ etl_status = "running"
    /\ waited' = waited + check_interval
    /\ UNCHANGED <<flows, twse, tpex, baseline, foreign_master, merged, ratios,
                   pc, store, etl_status, entry, broker, success, jobs>>

\* lines 45-47, 59-83: no status row, completed, error or any other status:
\* return True
WaitProceed ==
    /\ broker = "waiting"
    /\ waited < max_wait_seconds
    /\ etl_status # "running"
    /\ broker' = "fetching"
    /\ UNCHANGED <<flows, twse, tpex, baseline, foreign_master, merged, ratios,
                   pc, store, etl_status, entry, waited, success, jobs>>

\* lines 85-87: the status query fails: return True
WaitFailed ==
    /\ broker = "waiting"
    /\ waited < max_wait_seconds
    /\ broker' = "fetching"
    /\ UNCHANGED <<flows, twse, tpex, baseline, foreign_master, merged, ratios,
                   pc, store, etl_status, entry, waited, success, jobs>>

\* lines 89-90 and run_broker_etl lines 175-177: timeout, the broker ETL is
\* skipped
WaitTimeout ==
    /\ broker = "waiting"
    /\ waited >= max_wait_seconds
    /\ broker' = "skipped"
    /\ pc' = "after_broker"
    /\ UNCHANGED <<flows, twse, tpex, baseline, foreign_master, merged, ratios,
                   store, etl_status, entry, waited, success, jobs>>

\* run_broker_etl lines 179-204: broker data fetched and stored, nothing
\* fetched, or an exception of the fetch, of the upsert or of the
\* close_browser call of line 204, which leaves run_broker_etl
BrokerFetchStore ==
    /\ broker = "fetching"
    /\ broker' \in {"stored", "nodata", "failed"}
    /\ pc' = "after_broker"
    /\ UNCHANGED <<flows, twse, tpex, baseline, foreign_master, merged, ratios,
                   store, etl_status, entry, waited, success, jobs>>

\* a main that fails the job when the broker ETL failed
CloudReturn_broker_counts ==
    /\ pc = "after_broker"
    /\ entry = "run_cloud"
    /\ close_failed' \in BOOLEAN
    /\ main_result' = IF success /\ broker # "failed" THEN "0" ELSE "1"
    /\ pc' = "exit"
    /\ UNCHANGED <<flows, twse, tpex, baseline, foreign_master, merged, ratios,
                   store, proc, max_wait_minutes, check_interval, scripts>>

\* run_cloud.py lines 36-53: the exception of run_broker_etl is caught and
\* printed; close_browser is called and what it raises is dropped (lines
\* 40-44); main returns 0 or 1 by the success flag
CloudReturn ==
    /\ pc = "after_broker"
    /\ entry = "run_cloud"
    /\ close_failed' \in BOOLEAN
    /\ main_result' = IF success THEN "0" ELSE "1"
    /\ pc' = "exit"
    /\ UNCHANGED <<flows, twse, tpex, baseline, foreign_master, merged, ratios,
                   store, proc, max_wait_minutes, check_interval, scripts>>

\* run_broker.py line 253: main has no handler, the exception of
\* run_broker_etl leaves it
BrokerReturn ==
    /\ pc = "after_broker"
    /\ entry = "run_broker"
    /\ main_result' = IF broker = "failed" THEN "exception" ELSE "0"
    /\ pc' = "exit"
    /\ UNCHANGED <<flows, twse, tpex, baseline, foreign_master, merged, ratios,
                   store, proc, max_wait_minutes, check_interval,
                   close_failed, scripts>>

InitCloud ==
    \E n \in {0, 2}, e \in {"run_all", "run_cloud"}, status \in StatusValues :
        /\ institutional_flows = SeriesFlows(1101, n, 2, 5, 0)
        /\ foreign_holdings = SeriesSnaps(1101, n, 2, 5, 1000)
        /\ baseline = NoRows
        /\ target_date = HistoryEnd
        /\ flows = NoRows
        /\ twse = NoRows
        /\ tpex = NoRows
        /\ foreign_master = NoRows
        /\ merged = NoRows
        /\ ratios = NoTable
        /\ pc = "begin"
        /\ etl_status = status
        /\ entry = e
        /\ waited = 0
        /\ broker = "idle"
        /\ success = TRUE
        /\ JobsIdle

NextCloud ==
    \/ StartSameDay
    \/ FetchAndStore
    \/ LoadRatioInputs
    \/ Next
    \/ Complete
    \/ Raise
    \/ MainExcept
    \/ CloudPart2
    \/ WaitRunning
    \/ WaitProceed
    \/ WaitFailed
    \/ WaitTimeout
    \/ BrokerFetchStore
    \/ CloudReturn

SpecCloud == InitCloud /\ [][NextCloud]_vars

(***************************************************************************)
(* run_broker.py run as its own job (main, lines 207-253, without          *)
(* --skip-wait): wait_for_main_etl, called here with any arguments, reads  *)
(* the status row that the run_etl of another process writes.              *)
(***************************************************************************)
MaxWaitMinutes == 2
CheckIntervals == {30, 45, 50}

\* run_all.py update_etl_status called by the run_etl of another process:
\* line 206 at its start, lines 312, 347 or 359 at its end
OtherMainEtl ==
    /\ entry = "run_broker"
    /\ etl_status' \in IF etl_status = "running" THEN {"completed", "error"}
                                                 ELSE {"running"}
    /\ UNCHANGED <<flows, twse, tpex, baseline, foreign_master, merged, ratios,
                   pc, store, entry, waited, broker, success, jobs>>

InitWait ==
    \E m \in 0..MaxWaitMinutes, i \in CheckIntervals, status \in StatusValues :
        /\ institutional_flows = NoRows
        /\ foreign_holdings = NoRows
        /\ baseline = NoRows
        /\ target_date = HistoryEnd
        /\ flows = NoRows
        /\ twse = NoRows
        /\ tpex = NoRows
        /\ foreign_master = NoRows
        /\ merged = NoRows
        /\ ratios = NoTable
        /\ pc = "broker"
        /\ etl_status = status
        /\ entry = "run_broker"
        /\ waited = 0
        /\ broker = "waiting"
        /\ success = TRUE
        /\ max_wait_minutes = m
        /\ check_interval = i
        /\ main_result = "none"
        /\ close_failed = FALSE
        /\ from_db = <<>>
        /\ backfill = [outcome |-> "idle", start |-> 0, end |-> 0]
        /\ thread_local = <<>>
        /\ sessions = <<>>
        /\ futures = <<>>
        /\ workers = <<>>
        /\ executor = [fn |-> "none", pc |-> "idle", max_workers |-> 0,
                       months_back |-> 0, submitted |-> 0, collected |-> {}]

\* one pass of the loop of wait_for_main_etl, or its exit at line 89
WaitStep ==
    \/ WaitRunning
    \/ WaitProceed
    \/ WaitFailed
    \/ WaitTimeout

NextWait ==
    \/ WaitRunning
    \/ WaitProceed
    \/ WaitFailed
    \/ WaitTimeout
    \/ BrokerFetchStore
    \/ BrokerReturn
    \/ OtherMainEtl

\* the loop is sequential code: a pass that can be made is made (the sleep
\* ends, the status query returns or raises)
SpecWait == InitWait /\ [][NextWait]_vars /\ WF_vars(WaitStep)

(***************************************************************************)
(* The two functions called on frames that did not pass the database:      *)
(* the exchange frames may repeat a (code, date) pair, within a frame or   *)
(* across the two, and a flow row may carry another market than the        *)
(* snapshot of its code and date.  Flow keys stay unique.                  *)
(***************************************************************************)
RawSnapVals == {<<Some(1000), Some(100000)>>, <<Some(30000), Some(25000)>>, <<Null, Null>>}

RawSnapRows(mk) ==
    {SnapRow(1101, d, mk, sv) : d \in Dates, sv \in RawSnapVals}

SeqsUpTo(S, n) == UNION {[1..k -> S] : k \in 0..n}

RawStart(fl, tw, tp, base) ==
    /\ flows = fl
    /\ twse = tw
    /\ tpex = tp
    /\ baseline = base
    /\ foreign_master = NoRows
    /\ merged = NoRows
    /\ ratios = NoTable
    /\ pc = "loaded"
    /\ institutional_flows = NoRows
    /\ foreign_holdings = NoRows
    /\ target_date = MaxDate
    /\ etl_status = "running"
    /\ entry = "run_all"
    /\ waited = 0
    /\ broker = "idle"
    /\ success = TRUE
    /\ JobsIdle

InitRaw ==
    \E mk1 \in Markets, mk2 \in Markets :
        \E tw \in SeqsUpTo(RawSnapRows("TWSE"), MaxSnaps),
           tp \in SeqsUpTo(RawSnapRows("TPEX"), MaxSnaps) :
            \E anchored \in BOOLEAN :
                /\ Len(tw) + Len(tp) <= MaxSnaps
                /\ RawStart(<<FlowRow(1101, 1, mk1, <<1000, -200, 7>>),
                              FlowRow(1101, 2, mk2, <<-500, 300, -7>>)>>
                                \o Flows6488,
                            tw, tp,
                            IF anchored
                            THEN <<AnchorRow(1101, 1, <<Some(10000), Null>>)>>
                            ELSE <<>>)

SpecRaw == InitRaw /\ [][Next]_vars

(***************************************************************************)
(* Properties.  They read the inputs (flows, twse, tpex, baseline) and the *)
(* frames the steps produced.                                              *)
(***************************************************************************)
\* the step has run (the early return of lines 310-313 builds nothing)
MasterBuilt == foreign_master # NoRows
Estimated == merged # NoRows
Stored == pc = "done" /\ merged # NoRows

Rows(df) == 1..Len(df)
snapshots == twse \o tpex

\* the anchors of code c dated on or before D, and the latest of them
AnchorsOnOrBefore(c, D) ==
    {k \in Rows(baseline) : baseline[k].code = c /\ baseline[k].date <= D}
LastAnchor(c, D) ==
    CHOOSE k \in AnchorsOnOrBefore(c, D) :
        \A j \in AnchorsOnOrBefore(c, D) : baseline[j].date <= baseline[k].date

\* the sum of a net column over the input flow rows of c dated in (lo, hi]
FlowSum(c, col, lo, hi) ==
    SumNet(flows, col,
           {k \in Rows(flows) :
                flows[k].code = c /\ lo < flows[k].date /\ flows[k].date <= hi})

\* C1 (as claimed): every row at date D with an anchor on or before D has
\* trust_shares_est = trust_shares_base of the latest such anchor + the
\* trust_net of the rows dated after that anchor and up to D; same for dealer.
C1_AnchorPlusFlowSince ==
    Estimated =>
        \A i \in Rows(merged) :
            LET r == merged[i] IN
            AnchorsOnOrBefore(r.code, r.date) # {} =>
                LET a == baseline[LastAnchor(r.code, r.date)] IN
                /\ notna(a.trust_shares_base) =>
                       r.trust_shares_est =
                           Val(a.trust_shares_base)
                             + FlowSum(r.code, "trust_net", a.date, r.date)
                /\ notna(a.dealer_shares_base) =>
                       r.dealer_shares_est =
                           Val(a.dealer_shares_base)
                             + FlowSum(r.code, "dealer_net", a.date, r.date)

\* C2 (as claimed): anchor exactness: a row on the date of an anchor with
\* trust_shares_base = X has trust_shares_est = X, for every X, 0 included.
C2_AnchorExact ==
    Estimated =>
        \A i \in Rows(merged) : \A k \in Rows(baseline) :
            (/\ baseline[k].code = merged[i].code
             /\ baseline[k].date = merged[i].date
             /\ notna(baseline[k].trust_shares_base))
            => merged[i].trust_shares_est = Val(baseline[k].trust_shares_base)

\* C3: zero-anchor fallback: a row at date D of a code with no anchor on or
\* before D has trust_shares_est = the sum of trust_net over the code's flow
\* rows dated <= D, and dealer_shares_est likewise.
C3_ZeroAnchorFallback ==
    Estimated =>
        \A i \in Rows(merged) :
            LET r == merged[i] IN
            AnchorsOnOrBefore(r.code, r.date) = {} =>
                /\ r.trust_shares_est = FlowSum(r.code, "trust_net", 0, r.date)
                /\ r.dealer_shares_est = FlowSum(r.code, "dealer_net", 0, r.date)

\* C3 witness: a row before its code's first anchor, summing two flow rows
C3_Witness ==
    /\ pc = "estimated"
    /\ \E i \in Rows(merged) :
        LET r == merged[i] IN
        /\ AnchorsOnOrBefore(r.code, r.date) = {}
        /\ \E k \in Rows(baseline) :
                baseline[k].code = r.code /\ baseline[k].date > r.date
        /\ \E j \in Rows(flows) : flows[j].code = r.code /\ flows[j].date < r.date
        /\ r.trust_shares_est # 0
        /\ r.dealer_shares_est # 0

\* the snapshot rows of code c dated on or before D that carry column col
SnapsOnOrBefore(c, D, col) ==
    {k \in Rows(snapshots) :
        /\ snapshots[k].code = c
        /\ snapshots[k].date <= D
        /\ notna(snapshots[k][col])}
LastSnap(c, D, col) ==
    CHOOSE k \in SnapsOnOrBefore(c, D, col) :
        \A j \in SnapsOnOrBefore(c, D, col) : snapshots[j].date <= snapshots[k].date

\* C4 (as claimed): the denominator of a row at date D is the total_shares of
\* the latest snapshot of its code dated on or before D, also when D itself
\* has no snapshot row, and 0 when the code has no snapshot on or before D.
C4_DenominatorLatestSnapshot ==
    Estimated =>
        \A i \in Rows(merged) :
            LET r == merged[i] IN
            r.total_shares =
                IF SnapsOnOrBefore(r.code, r.date, "total_shares") = {} THEN 0
                ELSE Val(snapshots[LastSnap(r.code, r.date, "total_shares")].total_shares)

SnapshotCols == {"total_shares", "foreign_ratio"}

\* the input snapshot rows of code c dated strictly before D that carry col
SnapsBefore(c, D, col) ==
    {k \in SnapsOnOrBefore(c, D, col) : snapshots[k].date < D}
LastSnapBefore(c, D, col) ==
    CHOOSE k \in SnapsBefore(c, D, col) :
        \A j \in SnapsBefore(c, D, col) : snapshots[j].date <= snapshots[k].date

\* C5: build_foreign_master returns the input rows in ascending (code, date)
\* order; a cell that was not null is unchanged, a null total_shares or
\* foreign_ratio holds the last non-null value of an earlier-dated row of the
\* same code, and stays null when there is none.
C5_ForwardFillOnly ==
    MasterBuilt =>
        /\ Len(foreign_master) = Len(snapshots)
        /\ \A i \in Rows(foreign_master) : \A j \in Rows(foreign_master) :
                i < j =>
                    /\ KeyLE(foreign_master[i], foreign_master[j])
                    /\ ~KeyLE(foreign_master[j], foreign_master[i])
        /\ \A i \in Rows(foreign_master) :
            LET m == foreign_master[i] IN
            \E k \in Rows(snapshots) :
                /\ snapshots[k].code = m.code
                /\ snapshots[k].date = m.date
                /\ \A col \in SnapshotCols :
                    m[col] =
                        IF notna(snapshots[k][col]) THEN snapshots[k][col]
                        ELSE IF SnapsBefore(m.code, m.date, col) = {} THEN Null
                        ELSE snapshots[LastSnapBefore(m.code, m.date, col)][col]

\* C5 witness: one null cell was filled from an earlier row, one null cell of
\* a code without an earlier value stayed null
C5_Witness ==
    /\ pc = "master"
    /\ \E i \in Rows(foreign_master) : \E k \in Rows(snapshots) :
        /\ snapshots[k].code = foreign_master[i].code
        /\ snapshots[k].date = foreign_master[i].date
        /\ snapshots[k].foreign_ratio = Null
        /\ notna(foreign_master[i].foreign_ratio)
    /\ \E i \in Rows(foreign_master) : foreign_master[i].total_shares = Null

UniqueSnapshotKeys ==
    \A i \in Rows(snapshots) : \A j \in Rows(snapshots) :
        (/\ snapshots[i].code = snapshots[j].code
         /\ snapshots[i].date = snapshots[j].date) => i = j

C8_RatioOrZero ==
    Estimated =>
        \A i \in Rows(merged) :
            LET r == merged[i] IN
            IF r.total_shares > 0
            THEN /\ r.trust_ratio_est.n * r.total_shares
                        = r.trust_shares_est * 100 * r.trust_ratio_est.d
                 /\ r.dealer_ratio_est.n * r.total_shares
                        = r.dealer_shares_est * 100 * r.dealer_ratio_est.d
            ELSE r.trust_ratio_est = RatZero /\ r.dealer_ratio_est = RatZero

\* C8 witness: a ratio above 100 and a negative one, and a row whose
\* denominator is not positive while its estimates are not 0
C8_Witness ==
    /\ pc = "estimated"
    /\ \E i \in Rows(merged) :
        /\ merged[i].trust_ratio_est.n > 100 * merged[i].trust_ratio_est.d
        /\ merged[i].dealer_ratio_est.n < 0
    /\ \E i \in Rows(merged) :
        /\ merged[i].total_shares < 0
        /\ merged[i].trust_shares_est # 0
        /\ merged[i].trust_ratio_est = RatZero

\* C9: the emitted foreign_ratio is the foreign ratio of the master row
\* joined to the flow row (same date, code and market), 0 when that is null
\* or no row is joined; flows never enter it.
C9_ForeignPassthrough ==
    Estimated =>
        \A i \in Rows(merged) :
            LET r == merged[i]
                J == {k \in Rows(foreign_master) :
                        /\ foreign_master[k].code = r.code
                        /\ foreign_master[k].date = r.date
                        /\ foreign_master[k].market = r.market}
            IN  IF J = {} THEN r.foreign_ratio = RatZero
                ELSE \E k \in J :
                        r.foreign_ratio.n * 10000
                            = fillna(foreign_master[k].foreign_ratio, 0) * r.foreign_ratio.d

\* C9 witness: a row with a published ratio and a non-zero foreign_net, a row
\* joined to a null ratio, and a row joined to nothing
C9_Witness ==
    /\ pc = "estimated"
    /\ \E i \in Rows(merged) :
        merged[i].foreign_ratio # RatZero /\ merged[i].foreign_net # 0
    /\ \E i \in Rows(merged) : \E k \in Rows(foreign_master) :
        /\ foreign_master[k].code = merged[i].code
        /\ foreign_master[k].date = merged[i].date
        /\ foreign_master[k].foreign_ratio = Null
        /\ merged[i].foreign_ratio = RatZero
    /\ \E i \in Rows(merged) : \A k \in Rows(foreign_master) :
        ~(/\ foreign_master[k].code = merged[i].code
          /\ foreign_master[k].date = merged[i].date)

EmittedSumIdentity ==
    \A i \in Rows(merged) :
        merged[i].three_inst_ratio_est =
            RatAdd(merged[i].foreign_ratio,
                   RatAdd(merged[i].trust_ratio_est, merged[i].dealer_ratio_est))

\* persisted three_inst_ratio_est minus the sum of the persisted parts
PersistedGap(rec) ==
    rec.three_inst_ratio_est
        - (rec.foreign_ratio + rec.trust_ratio_est + rec.dealer_ratio_est)

\* C10 (as claimed): every emitted row and every persisted row has
\* three_inst_ratio_est = foreign_ratio + trust_ratio_est + dealer_ratio_est.
C10_SumIdentity ==
    /\ Estimated => EmittedSumIdentity
    /\ Stored => \A key \in DOMAIN ratios : PersistedGap(ratios[key]) = 0

\* C10 (amended): every emitted row has the exact sum identity; a persisted
\* row holds the four values rounded to 4 decimals each, and its
\* three_inst_ratio_est is within 0.0001 of the sum of its three parts.
C10_SumIdentityRounded ==
    /\ Estimated => EmittedSumIdentity
    /\ Stored => \A key \in DOMAIN ratios : Abs(PersistedGap(ratios[key])) <= 1

\* C10 witness: stored rows on and after an anchor, a row whose denominator
\* is 0, and a persisted row whose rounded parts miss the rounded sum
C10_Witness ==
    /\ pc = "done"
    /\ \E i \in Rows(merged) : notna(merged[i].trust_shares_base)
    /\ \E i \in Rows(merged) : merged[i].total_shares = 0
    /\ \E i \in Rows(merged) :
        merged[i].total_shares > 0 /\ merged[i].trust_shares_base = Null
    /\ \E key \in DOMAIN ratios : PersistedGap(ratios[key]) # 0

\* the rows of the output that precede row i in the series of its code
EarlierRows(i) ==
    {j \in Rows(merged) :
        merged[j].code = merged[i].code /\ merged[j].date < merged[i].date}

Changed == merged # NoRows /\ pc \in {"changed", "done"}

\* C11: with the rows of a code in ascending date order, change_W of a row
\* that has at least W earlier rows of its code is its three_inst_ratio_est
\* minus that of the row W positions earlier, and is null with fewer than W
\* earlier rows; the offset counts rows of the code, not days, not rows of
\* another code.
C11_RowPositionalChange ==
    Changed =>
        \A i \in Rows(merged) : \A w \in windows :
            IF Cardinality(EarlierRows(i)) >= w
            THEN \E k \in EarlierRows(i) :
                    /\ Cardinality(EarlierRows(k)) = Cardinality(EarlierRows(i)) - w
                    /\ merged[i].change[w] =
                            Some(RatSub(merged[i].three_inst_ratio_est,
                                        merged[k].three_inst_ratio_est))
            ELSE merged[i].change[w] = Null

\* C11 witness: a 5-row and a 20-row change of the first code, a 5-row change
\* of the second, a row with a null 5-row change although its code has a row
\* dated 5 days earlier, and a 5-row change that is not the difference to
\* the row dated 5 days earlier
C11_Witness ==
    /\ pc = "changed"
    /\ \E i \in Rows(merged) :
        /\ merged[i].code = 1101
        /\ notna(merged[i].change[20])
        /\ notna(merged[i].change[5])
        /\ Val(merged[i].change[5]) # RatZero
    /\ \E i \in Rows(merged) : merged[i].code = 6488 /\ notna(merged[i].change[5])
    /\ \E i \in Rows(merged) : \E j \in EarlierRows(i) :
        /\ merged[j].date = merged[i].date - 5
        /\ merged[i].change[5] = Null
    /\ \E i \in Rows(merged) : \E j \in EarlierRows(i) :
        /\ merged[j].date = merged[i].date - 5
        /\ notna(merged[i].change[5])
        /\ Val(merged[i].change[5]) #
                RatSub(merged[i].three_inst_ratio_est, merged[j].three_inst_ratio_est)

\* the rows of one code, in frame order
OfCode(df, c) == SelectSeq(df, LAMBDA r : r.code = c)

\* C12: no cross-security coupling: the rows emitted for a code by
\* build_estimated_holdings and add_change_metrics are those the two
\* functions emit from the flow, snapshot and anchor rows of that code alone,
\* so they are the same whatever rows the other codes have, an only anchor
\* of the baseline table included.
C12_NoCrossSecurityCoupling ==
    Changed =>
        \A c \in Codes :
            OfCode(merged, c) =
                add_change_metrics(
                    build_estimated_holdings(OfCode(flows, c),
                                             OfCode(foreign_master, c),
                                             OfCode(baseline, c)))

\* C12 witness: two codes with emitted rows, the anchors of the table all
\* belonging to one of them and taking effect on its estimate
C12_Witness ==
    /\ pc = "changed"
    /\ OfCode(merged, 1101) # NoRows
    /\ OfCode(merged, 6488) # NoRows
    /\ baseline # NoRows
    /\ OfCode(baseline, 6488) = NoRows
    /\ \E i \in Rows(merged) :
        merged[i].code = 1101 /\ merged[i].trust_shares_est # merged[i].trust_cum

\* C13: idempotence: once the table holds the rows of a run of the ratio
\* step, another run of the step over the same flow, snapshot and anchor
\* inputs leaves institutional_ratios as the run before left it.
C13_SecondRunSameTable ==
    [][(UpsertRatios /\ ratios # NoTable) => ratios' = ratios]_vars

\* C13 witness: a second run over the same inputs has recomputed its rows
\* and the table of the first run holds estimates, rounded ratios and the
\* rows of both codes
C13_Witness ==
    /\ pc = "changed"
    /\ ratios # NoTable
    /\ flows = institutional_flows
    /\ \E key \in DOMAIN ratios : key[1] = 6488
    /\ \E key \in DOMAIN ratios :
        key[1] = 1101 /\ ratios[key].trust_ratio_est # 0

\* the share estimates and ratios of a persisted row
ShareAndRatioValues(rec) ==
    <<rec.trust_shares_est, rec.dealer_shares_est, rec.foreign_ratio,
      rec.trust_ratio_est, rec.dealer_ratio_est, rec.three_inst_ratio_est>>

\* the sum of a net column over the stored flow rows of c dated up to D
StoredFlowSum(c, col, D) ==
    SumNet(institutional_flows, col,
           {k \in Rows(institutional_flows) :
                institutional_flows[k].code = c /\ institutional_flows[k].date <= D})

\* C14 (as claimed): a persisted (security, date) of the stored history,
\* whose flows, snapshots and anchors no run changes, keeps its share
\* estimates and ratios on every later run, whatever the target date; the
\* totals of a security without an anchor run from its first stored flow row.
C14_SameOnEveryRun ==
    /\ [][\A key \in DOMAIN ratios :
            key[2] <= HistoryEnd =>
                /\ key \in DOMAIN ratios'
                /\ ShareAndRatioValues(ratios'[key]) = ShareAndRatioValues(ratios[key])]_vars
    /\ [](\A key \in DOMAIN ratios :
            (key[2] <= HistoryEnd /\ OfCode(baseline, key[1]) = NoRows) =>
                /\ ratios[key].trust_shares_est =
                        StoredFlowSum(key[1], "trust_net", key[2])
                /\ ratios[key].dealer_shares_est =
                        StoredFlowSum(key[1], "dealer_net", key[2]))

\* the persisted change of window w
ChangeOf(rec, w) ==
    IF w = 5 THEN rec.change_5d
    ELSE IF w = 20 THEN rec.change_20d
    ELSE IF w = 60 THEN rec.change_60d
    ELSE rec.change_120d

\* the stored flow rows of a code dated before D
StoredEarlier(c, D) ==
    {k \in Rows(institutional_flows) :
        institutional_flows[k].code = c /\ institutional_flows[k].date < D}

\* C15 (as claimed): a persisted change_W is null only when the security has
\* fewer than W stored rows before the date, and no run replaces a persisted
\* non-null change_W with null.
C15_ChangeAgainstStoredSeries ==
    /\ [](\A key \in DOMAIN ratios : \A w \in windows :
            ChangeOf(ratios[key], w) = Null =>
                Cardinality(StoredEarlier(key[1], key[2])) < w)
    /\ [][\A key \in DOMAIN ratios : \A w \in windows :
            notna(ChangeOf(ratios[key], w)) =>
                /\ key \in DOMAIN ratios'
                /\ notna(ChangeOf(ratios'[key], w))]_vars

\* the rows of the frame being upserted that carry a key, and the last of them
RowsOfKey(key) ==
    {i \in Rows(merged) : <<merged[i].code, merged[i].date>> = key}
LastRowOfKey(key) == Max(RowsOfKey(key))

\* C18: a call of upsert_ratios leaves one row per (stock_id, trade_date):
\* the row of a key of the frame holds the values of the last frame row of
\* that key, every other key keeps the row it had, and no key is lost.
C18_LastUpsertWins ==
    [][UpsertRatios =>
        /\ DOMAIN ratios' =
                DOMAIN ratios \cup {<<merged[i].code, merged[i].date>> : i \in Rows(merged)}
        /\ \A key \in DOMAIN ratios' :
                ratios'[key] =
                    IF RowsOfKey(key) # {} THEN RatioRecord(merged[LastRowOfKey(key)])
                    ELSE ratios[key]]_vars

\* C18 witness: after a later call, the table holds a key of an earlier
\* call that the frame of this call did not carry (so this call replaced the
\* rows of the history keys it did carry) and a key the frame carried twice
\* with different values
C18_Witness ==
    /\ pc = "done"
    /\ \E key \in DOMAIN ratios : RowsOfKey(key) = {} /\ key[2] < AnchorDay
    /\ \E key \in DOMAIN ratios : \E i \in RowsOfKey(key) :
        RatioRecord(merged[i]) # ratios[key]

\* the input snapshot rows of a code
SnapshotsOf(c) == {k \in Rows(snapshots) : snapshots[k].code = c}

\* C16 (as claimed): a security with flow rows and no snapshot row at all
\* has no emitted row and no persisted row; the other securities have theirs.
C16_WithheldWithoutSnapshot ==
    /\ Estimated =>
        /\ \A i \in Rows(merged) : SnapshotsOf(merged[i].code) # {}
        /\ \A k \in Rows(flows) :
                SnapshotsOf(flows[k].code) # {} =>
                    \E i \in Rows(merged) :
                        merged[i].code = flows[k].code /\ merged[i].date = flows[k].date
    /\ \A key \in DOMAIN ratios : SnapshotsOf(key[1]) # {}

\* C17 (as claimed): a row whose denominator is unknown or not positive is
\* flagged, so that its persisted record differs from the record of every
\* row whose denominator is positive.
C17_UndefinedRatioFlagged ==
    Stored =>
        \A i \in Rows(merged) : \A j \in Rows(merged) :
            (merged[i].total_shares <= 0 /\ merged[j].total_shares > 0)
                => ratios[<<merged[i].code, merged[i].date>>]
                        # ratios[<<merged[j].code, merged[j].date>>]

\* run_etl has ended and its caller has dealt with the way it ended
RunEtlOver ==
    \/ pc \in {"returned", "exit"}
    \/ entry = "run_cloud" /\ pc \in {"broker", "after_broker"}

\* C19 (as claimed): once a run of run_etl is over (returned, returned early
\* or raised, from either entry point), etl_status is completed or error,
\* not running.
C19_NotRunningAfterRun ==
    RunEtlOver => etl_status \in {"completed", "error"}

\* C20 (as claimed): when run_etl raised in run_cloud.main, the broker ETL
\* gets past wait_for_main_etl and fetches instead of waiting out the
\* timeout and skipping.
C20_BrokerProceedsAfterFailure ==
    (entry = "run_cloud" /\ ~success) =>
        /\ waited < max_wait_seconds
        /\ broker # "skipped"

\* ceil(a / b) for a >= 0, b > 0
Ceil(a, b) == (a + b - 1) \div b

\* a step of wait_for_main_etl: a check of the status, or the exit
IsWaitCheck == broker = "waiting" /\ <<waited, broker>>' # <<waited, broker>>

\* C21: wait_for_main_etl terminates; a check that finds the status row
\* missing or a status other than running, or whose query raises, returns
\* True (the broker ETL goes on to fetch); it counts a wait only at a check
\* that found the status running, and returns False (the broker ETL is
\* skipped) only after ceil(max_wait_minutes * 60 / check_interval) checks.
C21_WaitTerminates ==
    /\ <>(broker # "waiting")
    /\ [](broker = "skipped" =>
            waited = check_interval
                        * Ceil(max_wait_minutes * 60, check_interval))
    /\ [][IsWaitCheck =>
            /\ (etl_status # "running" /\ waited < max_wait_minutes * 60)
                    => (broker' = "fetching" /\ waited' = waited)
            /\ waited' # waited
                    => /\ etl_status = "running"
                       /\ waited' = waited + check_interval
                       /\ broker' = "waiting"
            /\ broker' = "skipped" => waited' = waited
            /\ broker' \in {"waiting", "fetching", "skipped"}]_vars

\* the wait timed out after a number of checks whose intervals do not add up
\* to the limit exactly
C21_Witness ==
    /\ broker = "skipped"
    /\ waited > max_wait_minutes * 60
    /\ max_wait_minutes > 0

\* C22: run_cloud.main calls run_broker_etl whether run_etl returned or
\* raised; it returns 1 when run_etl raised and 0 when it returned; the
\* success flag is settled when run_etl ends and nothing after changes it,
\* so neither the outcome of the broker ETL nor an exception of
\* close_browser changes the value, and main never ends by an exception.
C22_ReturnByMainEtlAlone ==
    /\ []((entry = "run_cloud" /\ main_result # "none") =>
            /\ broker \in {"stored", "nodata", "failed", "skipped"}
            /\ main_result = (IF success THEN "0" ELSE "1"))
    /\ [][entry = "run_cloud" =>
            /\ (pc = "raised" /\ pc' # pc)
                    => (~success' /\ pc' = "broker" /\ broker' = "waiting")
            /\ (pc = "returned" /\ pc' # pc)
                    => (success' /\ pc' = "broker" /\ broker' = "waiting")
            /\ success' # success => pc = "raised"]_vars

\* main returned 1 although the broker ETL stored its data, or returned 0
\* although the broker ETL and close_browser both failed
C22_Witness ==
    /\ entry = "run_cloud"
    /\ \/ main_result = "1" /\ broker = "stored"
       \/ main_result = "0" /\ broker = "failed" /\ close_failed

\* institutional_flows holds a row of security c for day d
FlowStored(c, d) ==
    \E k \in 1..Len(institutional_flows) :
        institutional_flows[k].code = c /\ institutional_flows[k].date = d

\* step 1 of a run has stored the other exchange's row of day d, or a row of
\* a later day, but not the row of c for d, which its exchange publishes
FlowGap(c, d) ==
    /\ pc = "ratio"
    /\ ~FlowStored(c, d)
    /\ \E k \in 1..Len(institutional_flows) :
        \/ institutional_flows[k].date > d
        \/ institutional_flows[k].date = d /\ institutional_flows[k].code # c

\* a run is about to fetch the flows of a range of days that holds d
\* (lines 216-232)
Refetched(d) ==
    /\ pc = "fetch"
    /\ calc_start(get_last_date_from_db(institutional_flows), target_date) <= d
    /\ d <= target_date

\* C23 (as claimed): a flow row missing because the fetch of one exchange
\* failed for a day, while the other exchange's row of that day or a row of
\* a later day was stored, is fetched again by some later run (the run's
\* range of days holds the day).
C23_GapFetchedAgain ==
    \A c \in Codes, d \in GapDays : FlowGap(c, d) ~> Refetched(d)

\* run after run reaches its fetch step
GapRunsGoOn == []<>(pc = "fetch")

\* C24 (as claimed): a call of compute_institutional_ratios over a range for
\* which institutional_ratios already holds rows ends without error and
\* leaves, for every (security, date) it computed, the one row of that key
\* with the newly computed values.
C24_BackfillUpserts ==
    [][LET rows == backfill_rows(institutional_flows, foreign_holdings,
                                 backfill'.start, backfill'.end)
       IN  (backfill' # backfill /\ DOMAIN rows \cap DOMAIN ratios # {}) =>
                /\ backfill'.outcome = "done"
                /\ \A k \in DOMAIN rows :
                        k \in DOMAIN ratios' /\ ratios'[k] = rows[k]]_vars

\* the persisted ratio and change values of a row of run_etl's frame, of the
\* frame of compute_ratios_from_db, and of a row written by the backfill
EtlValues(r) ==
    <<Some(Numeric84(r.trust_ratio_est)), Some(Numeric84(r.dealer_ratio_est)),
      Some(Numeric84(r.three_inst_ratio_est)),
      [w \in windows |-> safe_float(r.change[w])]>>

StoredValues(rec) ==
    <<rec.trust_ratio_est, rec.dealer_ratio_est, rec.three_inst_ratio_est,
      (5 :> rec.change_5d) @@ (20 :> rec.change_20d) @@ (60 :> rec.change_60d)
        @@ (120 :> rec.change_120d)>>

\* run_etl has computed its frame, and the other two implementations have
\* run over the same stored tables, the backfill over all their dates
AllThreeComputed ==
    /\ pc = "changed"
    /\ baseline = <<>>
    /\ from_db # <<>>
    /\ backfill = [outcome |-> "done", start |-> 1, end |-> MaxDate]

EtlAgreesWithFromDb ==
    \A i \in 1..Len(merged) :
        \E j \in 1..Len(from_db) :
            /\ from_db[j].code = merged[i].code
            /\ from_db[j].date = merged[i].date
            /\ EtlValues(from_db[j]) = EtlValues(merged[i])

EtlAgreesWithBackfill ==
    \A i \in 1..Len(merged) :
        /\ <<merged[i].code, merged[i].date>> \in DOMAIN ratios
        /\ StoredValues(ratios[<<merged[i].code, merged[i].date>>])
                = EtlValues(merged[i])

\* C25 (as claimed): without baseline anchors, run_etl's ratio step,
\* compute_ratios_from_db and compute_institutional_ratios give the same
\* trust, dealer and combined ratio and the same changes for every
\* (security, date) of the stored flows.
C25_ThreeImplementationsAgree ==
    AllThreeComputed => (EtlAgreesWithFromDb /\ EtlAgreesWithBackfill)

\* the flow rows of day d
FlowsOn(table, d) == {table[k] : k \in {j \in 1..Len(table) : table[j].date = d}}

\* C26: a call of backfill_institutional_flows leaves the flow rows of every
\* day that had a flow row as they were, and so leaves the whole table as it
\* was when every day of its range had one.
C26_FilledDatesUntouched ==
    [][/\ \A d \in Dates :
            HasFlowOn(institutional_flows, d) =>
                FlowsOn(institutional_flows', d) = FlowsOn(institutional_flows, d)
       /\ (\A d \in Dates : HasFlowOn(institutional_flows, d))
            => institutional_flows' = institutional_flows]_vars

\* a call that ended has filled a day of its range (a fetched row is there)
\* and has passed over another day of its range, whose stored row of the
\* first security is not what the exchange would have answered
C26_Witness ==
    /\ backfill.outcome = "flows done"
    /\ \E d1, d2 \in backfill.start..backfill.end :
        /\ FlowRow(6488, d1, "TPEX", <<300, 50, -7>>)
                \in FlowsOn(institutional_flows, d1)
        /\ \E r \in FlowsOn(institutional_flows, d2) :
                r.code = 1101 /\ r.trust_net # 300
        /\ FlowRow(6488, d2, "TPEX", <<300, 50, -7>>)
                \notin FlowsOn(institutional_flows, d2)

\* ---------------------------------------------------------------------
\* backfill_prices.py: the price backfill over a pool of worker threads
\* ---------------------------------------------------------------------

MaxTasks == 3
MaxWorkers == 2
MaxMonths == 2

MainThread == <<"MainThread", 0>>

\* the threads an executor names with thread_name_prefix
WorkersOf(fn) == {<<fn, i>> : i \in 1..MaxWorkers}

Workers == WorkersOf("twse") \cup WorkersOf("tpex")

Threads == {MainThread} \cup Workers

\* thread_local has no attribute db in this thread
NoDb == 0

\* get_thread_db in thread t: the thread's session, opened when the thread
\* has none
get_thread_db(t) ==
    IF thread_local[t] = NoDb
    THEN /\ sessions' = Append(sessions, [state |-> "open", opened_by |-> t,
                                          used_by |-> {}])
         /\ thread_local' = [thread_local EXCEPT ![t] = Len(sessions) + 1]
    ELSE UNCHANGED <<sessions, thread_local>>

\* close_thread_db in thread t: closes and forgets the session of the
\* thread that calls it, when that thread has one
close_thread_db(t) ==
    IF thread_local[t] # NoDb
    THEN /\ sessions' = [sessions EXCEPT ![thread_local[t]].state = "closed"]
         /\ thread_local' = [thread_local EXCEPT ![t] = NoDb]
    ELSE UNCHANGED <<sessions, thread_local>>

EtlUntouched ==
    UNCHANGED <<flows, twse, tpex, baseline, foreign_master, merged, ratios,
                pc, store, proc, max_wait_minutes, check_interval,
                main_result, close_failed, from_db, backfill>>

Started(t) == workers[t].pc \notin {"unstarted", "exited"}

\* executor.submit: the task is queued, and a thread is started for it when
\* no started thread is idle and fewer than max_workers are started
Submit ==
    /\ executor.pc = "submit"
    /\ executor.submitted < Len(futures)
    /\ futures' = [futures EXCEPT ![executor.submitted + 1] = "pending"]
    /\ executor' = [executor EXCEPT !.submitted = @ + 1]
    /\ LET pool == WorkersOf(executor.fn)
           started == {t \in pool : Started(t)}
           fresh == {t \in pool : workers[t].pc = "unstarted"}
       IN  IF /\ \A t \in started : workers[t].pc # "idle"
              /\ Cardinality(started) < executor.max_workers
              /\ fresh # {}
           THEN workers' = [workers EXCEPT
                    ![CHOOSE t \in fresh : \A u \in fresh : t[2] <= u[2]].pc
                        = "idle"]
           ELSE UNCHANGED workers
    /\ UNCHANGED <<thread_local, sessions>>
    /\ EtlUntouched

\* every task is submitted: the main thread goes on to as_completed
AllSubmitted ==
    /\ executor.pc = "submit"
    /\ executor.submitted = Len(futures)
    /\ executor' = [executor EXCEPT !.pc = "as_completed"]
    /\ UNCHANGED <<thread_local, sessions, futures, workers>>
    /\ EtlUntouched

\* a worker thread takes the oldest queued task
TakeTask(t) ==
    /\ t \in WorkersOf(executor.fn)
    /\ workers[t].pc = "idle"
    /\ \E k \in 1..Len(futures) :
        /\ futures[k] = "pending"
        /\ \A j \in 1..(k - 1) : futures[j] # "pending"
        /\ futures' = [futures EXCEPT ![k] = "running"]
        /\ workers' = [workers EXCEPT ![t] = [pc |-> "get_db", task |-> k,
                                              left |-> 0]]
    /\ UNCHANGED <<thread_local, sessions, executor>>
    /\ EtlUntouched

\* first line of backfill_twse_stock and of backfill_tpex_date
GetThreadDb(t) ==
    /\ t \in WorkersOf(executor.fn)
    /\ workers[t].pc = "get_db"
    /\ get_thread_db(t)
    /\ workers' = [workers EXCEPT ![t].pc = "work",
                                  ![t].left = IF executor.fn = "twse"
                                              THEN executor.months_back
                                              ELSE 1]
    /\ UNCHANGED <<futures, executor>>
    /\ EtlUntouched

\* one month of backfill_twse_stock, or the one day of backfill_tpex_date:
\* rows were fetched and written through the thread's session, or nothing
\* was fetched (empty answer, or an exception that the function catches)
Work(t) ==
    /\ t \in WorkersOf(executor.fn)
    /\ workers[t].pc = "work"
    /\ workers[t].left > 0
    /\ \E fetched \in BOOLEAN :
        IF fetched
        THEN sessions' = [sessions EXCEPT
                            ![thread_local[t]].used_by = @ \cup {t}]
        ELSE UNCHANGED sessions
    /\ workers' = [workers EXCEPT ![t].left = @ - 1]
    /\ UNCHANGED <<thread_local, futures, executor>>
    /\ EtlUntouched

\* the task returns its count: its future is done and the thread is idle
Return(t) ==
    /\ t \in WorkersOf(executor.fn)
    /\ workers[t].pc = "work"
    /\ workers[t].left = 0
    /\ futures' = [futures EXCEPT ![workers[t].task] = "done"]
    /\ workers' = [workers EXCEPT ![t] = [pc |-> "idle", task |-> 0,
                                          left |-> 0]]
    /\ UNCHANGED <<thread_local, sessions, executor>>
    /\ EtlUntouched

\* one pass of the as_completed loop, in the main thread: the result of a
\* finished future is added up, and the finally clause calls
\* close_thread_db
Collect ==
    /\ executor.pc = "as_completed"
    /\ \E k \in 1..Len(futures) :
        /\ futures[k] = "done"
        /\ k \notin executor.collected
        /\ executor' = [executor EXCEPT !.collected = @ \cup {k}]
    /\ close_thread_db(MainThread)
    /\ UNCHANGED <<futures, workers>>
    /\ EtlUntouched

\* end of the with block: the executor is shut down, its threads end and
\* their thread-local storage goes with them; the function returns
Shutdown ==
    /\ executor.pc = "as_completed"
    /\ executor.collected = 1..Len(futures)
    /\ \A t \in WorkersOf(executor.fn) :
            workers[t].pc \in {"unstarted", "idle"}
    /\ workers' = [t \in Workers |->
                    IF t \in WorkersOf(executor.fn) /\ Started(t)
                    THEN [workers[t] EXCEPT !.pc = "exited"]
                    ELSE workers[t]]
    /\ thread_local' = [t \in Threads |->
                    IF t \in WorkersOf(executor.fn) THEN NoDb
                    ELSE thread_local[t]]
    /\ executor' = [executor EXCEPT !.pc = "returned"]
    /\ UNCHANGED <<sessions, futures>>
    /\ EtlUntouched

\* run_full_backfill and run_incremental_update: backfill_tpex_parallel
\* is called once backfill_twse_parallel has returned
RunTpex ==
    /\ executor.pc = "returned"
    /\ executor.fn = "twse"
    /\ \E n \in 0..MaxTasks, w \in 1..MaxWorkers :
        /\ futures' = [k \in 1..n |-> "unsubmitted"]
        /\ executor' = [fn |-> "tpex", pc |-> "submit", max_workers |-> w,
                        months_back |-> 0, submitted |-> 0, collected |-> {}]
    /\ UNCHANGED <<thread_local, sessions, workers>>
    /\ EtlUntouched

InitThreads ==
    /\ \E n \in 0..MaxTasks, w \in 1..MaxWorkers, m \in 1..MaxMonths :
        /\ futures = [k \in 1..n |-> "unsubmitted"]
        /\ executor = [fn |-> "twse", pc |-> "submit", max_workers |-> w,
                       months_back |-> m, submitted |-> 0, collected |-> {}]
    /\ thread_local = [t \in Threads |-> NoDb]
    /\ sessions = <<>>
    /\ workers = [t \in Workers |-> [pc |-> "unstarted", task |-> 0,
                                     left |-> 0]]
    /\ institutional_flows = NoRows
    /\ foreign_holdings = NoRows
    /\ baseline = NoRows
    /\ target_date = MaxDate
    /\ flows = NoRows
    /\ twse = NoRows
    /\ tpex = NoRows
    /\ foreign_master = NoRows
    /\ merged = NoRows
    /\ ratios = NoTable
    /\ pc = "backfill_prices"
    /\ etl_status = "none"
    /\ entry = "backfill_prices"
    /\ waited = 0
    /\ broker = "idle"
    /\ success = TRUE
    /\ max_wait_minutes = 30
    /\ check_interval = 30
    /\ main_result = "none"
    /\ close_failed = FALSE
    /\ from_db = <<>>
    /\ backfill = [outcome |-> "idle", start |-> 0, end |-> 0]

NextThreads ==
    \/ Submit
    \/ AllSubmitted
    \/ \E t \in Workers : TakeTask(t)
    \/ \E t \in Workers : GetThreadDb(t)
    \/ \E t \in Workers : Work(t)
    \/ \E t \in Workers : Return(t)
    \/ Collect
    \/ Shutdown
    \/ RunTpex

SpecThreads == InitThreads /\ [][NextThreads]_vars

\* no session is used by a thread other than the one that opened it
OwnSessionOnly ==
    \A s \in 1..Len(sessions) :
        sessions[s].used_by \subseteq {sessions[s].opened_by}

\* a parallel backfill has returned
Returned == executor.pc = "returned"

\* every session opened through get_thread_db is closed
AllSessionsClosed ==
    \A s \in 1..Len(sessions) : sessions[s].state = "closed"

\* C27 (as claimed): in backfill_twse_parallel and backfill_tpex_parallel a
\* session is used only by the worker thread that opened it, and when the
\* function has returned every session opened through get_thread_db is
\* closed.
C27_OwnSessionsClosedAtReturn ==
    /\ OwnSessionOnly
    /\ Returned => AllSessionsClosed

\* the part of C27 about the return alone
ClosedAtReturn == Returned => AllSessionsClosed

\* a returned backfill whose workers wrote through sessions of their own
SessionsWereUsed ==
    /\ Returned
    /\ \E s \in 1..Len(sessions) : sessions[s].used_by # {}

\* ---------------------------------------------------------------------
\* build_estimated_holdings and add_change_metrics on frames whose rows
\* come in any order (unique (code, date) keys)
\* ---------------------------------------------------------------------

RowOrders(n) ==
    {p \in [1..n -> 1..n] : \A i, j \in 1..n : p[i] = p[j] => i = j}

\* the rotations of 1..n and their reversals
RotRev(n) ==
    {[i \in 1..n |-> ((i + k - 1) % n) + 1] : k \in 0..(n - 1)}
        \cup {[i \in 1..n |-> ((n - i + k) % n) + 1] : k \in 0..(n - 1)}

\* the first and the last of the reorderings in RotRev: as it is, reversed
AsIsOrReversed(n) ==
    {[i \in 1..n |-> i], [i \in 1..n |-> n + 1 - i]}

Permuted(df, p) == [i \in 1..Len(df) |-> df[p[i]]]

\* the rows of a frame of unique keys in ascending (code, date) order, the
\* order of the queries of run_etl (ORDER BY code, trade_date)
OrderBy(df) ==
    [k \in 1..Len(df) |->
        df[CHOOSE j \in 1..Len(df) :
            Cardinality({i \in 1..Len(df) :
                            i # j /\ KeyLE(df[i], df[j])}) = k - 1]]

RowSet(df) == {df[i] : i \in 1..Len(df)}

\* the frames handed to build_estimated_holdings
StartPermuted(fl, fm, base) ==
    /\ flows = fl
    /\ foreign_master = fm
    /\ baseline = base
    /\ twse = NoRows
    /\ tpex = NoRows
    /\ merged = NoRows
    /\ ratios = NoTable
    /\ pc = "master"
    /\ institutional_flows = NoRows
    /\ foreign_holdings = NoRows
    /\ target_date = MaxDate
    /\ etl_status = "running"
    /\ entry = "run_all"
    /\ waited = 0
    /\ broker = "idle"
    /\ success = TRUE
    /\ JobsIdle

MasterOf(snaps) ==
    build_foreign_master(Exchange(snaps, "TWSE"), Exchange(snaps, "TPEX"))

\* <<trust, dealer>> baselines of the anchors of days 1 and 2
AnchorPairs ==
    {<<<<Some(10000), Null>>, <<Null, Some(200)>>>>,
     <<<<Some(0), Some(0)>>, <<Some(10000), Null>>>>,
     <<<<Some(10000), Some(200)>>, <<Some(0), Some(0)>>>>,
     <<<<Null, Null>>, <<Some(10000), Some(200)>>>>}

AnchorsOfPair(ap) ==
    <<AnchorRow(1101, 1, ap[1]), AnchorRow(1101, 2, ap[2])>>

\* short frames: one of the three frames in every order of its rows, the
\* other two as they are or both reversed
InitPermutedShort ==
    \E ap \in AnchorPairs, which \in {"flows", "master", "baseline"} :
        LET fl == FlowsFull1101 \o FlowsOf(6488, (1 :> <<1000, -200, 7>>))
            fm == MasterOf(SnapsFull1101 \o Snaps6488)
            base == AnchorsOfPair(ap)
        IN  \E pf \in IF which = "flows" THEN RowOrders(Len(fl))
                      ELSE AsIsOrReversed(Len(fl)),
               pm \in IF which = "master" THEN RowOrders(Len(fm))
                      ELSE AsIsOrReversed(Len(fm)),
               pb \in IF which = "baseline" THEN RowOrders(Len(base))
                      ELSE AsIsOrReversed(Len(base)) :
                /\ which = "flows" => (pm[1] = 1 <=> pb[1] = 1)
                /\ which = "master" => (pf[1] = 1 <=> pb[1] = 1)
                /\ which = "baseline" => (pf[1] = 1 <=> pm[1] = 1)
                /\ StartPermuted(Permuted(fl, pf), Permuted(fm, pm),
                                 Permuted(base, pb))

\* frames long enough for a 5-row change (6 rows of 1101, 3 of 6488),
\* rotated and reversed
InitPermutedLong ==
    LET fl == SeriesFlows(1101, 6, 0, 5, 0) \o SeriesFlows(6488, 3, 0, 5, 1)
        fm == MasterOf(SeriesSnaps(1101, 6, 0, 5, 1000)
                        \o SeriesSnaps(6488, 3, 0, 5, 30000))
    IN  \E ap \in AnchorPairs :
            \E pf \in RotRev(Len(fl)), pm \in RotRev(Len(fm)),
               pb \in AsIsOrReversed(2) :
                StartPermuted(Permuted(fl, pf), Permuted(fm, pm),
                              Permuted(AnchorsOfPair(ap), pb))

InitPermuted == InitPermutedShort \/ InitPermutedLong

NextPermuted == BuildEstimatedHoldings \/ AddChangeMetrics

SpecPermuted == InitPermuted /\ [][NextPermuted]_vars

\* what the two steps give for the same rows in (code, date) order
InKeyOrder ==
    add_change_metrics(
        build_estimated_holdings(OrderBy(flows), OrderBy(foreign_master),
                                 OrderBy(baseline)))

\* C28: for frames of unique (code, date) keys, build_estimated_holdings
\* followed by add_change_metrics gives the same set of rows, with the same
\* values, whatever the order of the rows of flows, foreign_master and
\* baseline.
C28_RowOrderIrrelevant ==
    pc = "changed" => RowSet(merged) = RowSet(InKeyOrder)

\* the two steps have run on three frames that were out of key order and
\* have given a row an estimate from an anchor and a row a 5-row change
C28_Witness ==
    /\ pc = "changed"
    /\ flows # OrderBy(flows)
    /\ foreign_master # OrderBy(foreign_master)
    /\ baseline # OrderBy(baseline)
    /\ \E i \in 1..Len(merged) :
        /\ notna(merged[i].change[5])
        /\ merged[i].trust_shares_est # merged[i].trust_cum

\* the values an anchor's baseline cell can take in another run
OtherBaseCells == {Null, Some(0), Some(200), Some(10000)}

\* the anchors with their cells of one column replaced
WithBaseColumn(base, col, cells) ==
    [i \in 1..Len(base) |->
        IF col = "dealer_shares_base"
        THEN AnchorRow(base[i].code, base[i].date,
                       <<base[i].trust_shares_base, cells[i]>>)
        ELSE AnchorRow(base[i].code, base[i].date,
                       <<cells[i], base[i].dealer_shares_base>>)]

\* a run of build_estimated_holdings on the same frames, the anchors
\* differing in one baseline column only
OtherRun(col, cells) ==
    build_estimated_holdings(flows, foreign_master,
                             WithBaseColumn(baseline, col, cells))

SameEstimate(a, b, shares, ratio) ==
    /\ Len(a) = Len(b)
    /\ \A i \in 1..Len(a) :
        a[i][shares] = b[i][shares] /\ a[i][ratio] = b[i][ratio]

TrustIgnoresDealerBase ==
    pc = "estimated" =>
        \A cells \in [1..Len(baseline) -> OtherBaseCells] :
            SameEstimate(merged, OtherRun("dealer_shares_base", cells),
                         "trust_shares_est", "trust_ratio_est")

DealerIgnoresTrustBase ==
    pc = "estimated" =>
        \A cells \in [1..Len(baseline) -> OtherBaseCells] :
            SameEstimate(merged, OtherRun("trust_shares_base", cells),
                         "dealer_shares_est", "dealer_ratio_est")

\* C29 (as claimed): two runs of build_estimated_holdings whose anchors
\* differ only in dealer_shares_base (null, 0 or non-zero) give the same
\* trust_shares_est and trust_ratio_est on every row, and two runs whose
\* anchors differ only in trust_shares_base give the same dealer_shares_est
\* and dealer_ratio_est.
C29_EstimatesIndependent ==
    TrustIgnoresDealerBase /\ DealerIgnoresTrustBase

\* a security with a non-zero trust baseline on one of its rows
HasTrustBase(c) ==
    \E j \in 1..Len(merged) :
        merged[j].code = c /\ fillna(merged[j].trust_shares_base, 0) # 0

\* the dependence is confined to securities without a non-zero trust
\* baseline of their own
TrustIgnoresDealerBaseWhenAnchored ==
    pc = "estimated" =>
        \A cells \in [1..Len(baseline) -> OtherBaseCells] :
            LET other == OtherRun("dealer_shares_base", cells)
            IN  /\ Len(other) = Len(merged)
                /\ \A i \in 1..Len(merged) :
                    HasTrustBase(merged[i].code) =>
                        /\ other[i].trust_shares_est = merged[i].trust_shares_est
                        /\ other[i].trust_ratio_est = merged[i].trust_ratio_est

====
